---- MODULE Spec2Model ----
(***************************************************************************)
(* DefenSys scan orchestration, scheduling and caching.                    *)
(*                                                                         *)
(* Five parts of the backend are modelled, each with its own               *)
(* specification over the part's variables (the others stay at their       *)
(* initial value):                                                         *)
(*   SpecOrch   api/scan_orchestrator.py  ScanOrchestrator._execute_scan   *)
(*   SpecBg     api/main.py               the two background scan paths    *)
(*   SpecCache  scanners/advanced_optimization.py  AdvancedCacheManager    *)
(*   SpecOpt    scanners/optimized_manager.py      OptimizedScannerManager *)
(*   SpecSched  scanners/intelligent_scheduler.py  IntelligentTaskScheduler*)
(***************************************************************************)
EXTENDS Integers, Sequences, FiniteSets, TLC

VARIABLES
    \* ---- ScanOrchestrator (api/scan_orchestrator.py) ----
    opc,                \* position of _execute_scan
    target_type,        \* target.target_type of the scan's target
    tools,              \* the tools list handed to _execute_scan
    scan_status,        \* scans.status of the scan row
    scan_progress,      \* scans.progress of the scan row
    idx,                \* loop index of "for idx, tool_name in enumerate(tools)"
    all_vulnerabilities,\* local list of _execute_scan
    all_findings,       \* local list of _execute_scan
    db_vulnerabilities, \* rows of the vulnerabilities table of this scan
    db_findings,        \* rows of the findings table of this scan
    tool_log,           \* history: per tool, what the scanner did
    db_raised,          \* history: a persistence (crud) call has raised
    events,             \* the messages published to the RabbitMQ exchange
    publish_failed,     \* history: a publication did not reach the exchange
    \* ---- background scan paths (api/main.py, scanners/executor.py) ----
    bpc,                \* position of the background task
    bpath,              \* which background function runs
    bg_status,          \* scans.status of the scan row
    scan_types,         \* the scan_types argument
    parallel,           \* execution_config "parallel"
    st_idx,             \* index of "for scan_type in scan_types"
    pending,            \* scanners of the current scan type not finished yet
    all_results,        \* all_results of run_scan_for_project
    clone_ok,           \* history: the git clone succeeded
    finished,           \* history: the scanners whose scan() ran, with the outcome
    bg_vulns,           \* number of vulnerability rows created for the scan
    \* ---- target file system and clock, shared by the two caches ----
    fs,                 \* per target path, per file: <<st_mtime, st_size>>
    now,                \* time.time(), in seconds
    \* ---- AdvancedCacheManager (scanners/advanced_optimization.py) ----
    redis,              \* the Redis keys of the manager: key -> value, expiry
    lookup,             \* the last get_cached_scan_result call and what it returned
    invalidated,        \* history: paths invalidated and not stored since
    \* ---- OptimizedScannerManager (scanners/optimized_manager.py) ----
    req,                \* per request: its ScanTask, position and ScanResult,
                        \* with the history fields key_content (the file
                        \* stats its cache key was computed from), prior (the
                        \* successful runs cached and unexpired at its cache
                        \* lookup) and invoked (the adapter was called)
    successes,          \* history: the successful adapter runs
    last_call,          \* history: the latest call of an entry point
    \* ---- IntelligentTaskScheduler (scanners/intelligent_scheduler.py) ----
    task_queue,         \* self.task_queue, the heapq list
    running_tasks,      \* self.running_tasks: task_id -> the task's scanner_name
    completed_tasks,    \* self.completed_tasks: task_id -> success
    average_duration,   \* scanner_profiles[name]["metrics"].average_duration
    scheduler_stats,    \* self.scheduler_stats
    resources,          \* SystemResourceMonitor._cached_stats
    next_task,          \* what get_next_task returned: a task not yet marked
                        \* running, or None
    admission,          \* history: the latest can_handle_task call
    pool,               \* run_optimized_scan: its semaphore and how many of
                        \* its scanner executions stand where
    engine,             \* OptimalScanningEngine: the turns of its loops
    scan_plan,          \* the latest get_incremental_scan_plan call: its
                        \* inputs and the plan it returned
    monitor,            \* SystemResourceMonitor: the clock, last_update, and
                        \* as history the re-sampling times and the latest call
    denied              \* history: the head get_next_task last refused and
                        \* the snapshot it was refused under, since a task
                        \* last started running

orchVars == <<opc, target_type, tools, scan_status, scan_progress, idx,
              all_vulnerabilities, all_findings, db_vulnerabilities,
              db_findings, tool_log, db_raised, events, publish_failed>>
bgVars == <<bpc, bpath, bg_status, scan_types, parallel, st_idx, pending,
            all_results, clone_ok, finished, bg_vulns>>
envVars == <<fs, now>>
cacheVars == <<redis, lookup, invalidated>>
optVars == <<req, successes, last_call>>
\* The variables only the specifications of single components change
engineVars == <<engine>>
restVars == <<monitor, scan_plan, engineVars, pool>>
schedVars == <<task_queue, running_tasks, completed_tasks, average_duration,
               scheduler_stats, resources, next_task, denied, admission,
               restVars>>
vars == <<orchVars, bgVars, envVars, cacheVars, optVars, schedVars>>

(***************************************************************************)
(* Generic helpers.                                                        *)
(***************************************************************************)
RECURSIVE Flatten(_)
Flatten(ss) == IF ss = <<>> THEN <<>> ELSE Head(ss) \o Flatten(Tail(ss))

Range(s) == {s[i] : i \in 1..Len(s)}

(***************************************************************************)
(* ScanOrchestrator                                                        *)
(***************************************************************************)
\* self.scanners of ScanOrchestrator.__init__
OrchScanners == {"nmap", "zap", "nuclei", "nikto"}

ScanTypeInputs == {"quick", "default", "full", "network", "web", "custom"}
TargetTypes == {"ip", "domain", "url", "cidr"}
\* scan_request.scan_tools: <<>> stands for None and for the empty list,
\* which "if requested_tools:" treats alike.
RequestedToolInputs ==
    {<<>>, <<"nmap">>, <<"burp">>, <<"nuclei", "burp", "nmap">>}

\* tool_map of _determine_scan_tools
tool_map(scan_type, tt) ==
    CASE scan_type = "quick" ->
           (CASE tt = "ip" -> <<"nmap">>
              [] tt = "domain" -> <<"nmap", "nuclei">>
              [] tt = "url" -> <<"nuclei">>
              [] tt = "cidr" -> <<"nmap">>
              [] OTHER -> <<"nmap">>)
      [] scan_type = "default" ->
           (CASE tt = "ip" -> <<"nmap", "nuclei">>
              [] tt = "domain" -> <<"nmap", "nuclei", "nikto">>
              [] tt = "url" -> <<"nuclei", "nikto">>
              [] tt = "cidr" -> <<"nmap">>
              [] OTHER -> <<"nmap">>)
      [] scan_type = "full" ->
           (CASE tt = "ip" -> <<"nmap", "nuclei", "nikto", "zap">>
              [] tt = "domain" -> <<"nmap", "nuclei", "nikto", "zap">>
              [] tt = "url" -> <<"nuclei", "nikto", "zap">>
              [] tt = "cidr" -> <<"nmap">>
              [] OTHER -> <<"nmap">>)
      [] scan_type = "network" ->
           (CASE tt = "ip" -> <<"nmap">>
              [] tt = "domain" -> <<"nmap">>
              [] tt = "url" -> <<>>
              [] tt = "cidr" -> <<"nmap">>
              [] OTHER -> <<"nmap">>)
      [] scan_type = "web" ->
           (CASE tt = "ip" -> <<"nuclei", "nikto">>
              [] tt = "domain" -> <<"nuclei", "nikto", "zap">>
              [] tt = "url" -> <<"nuclei", "nikto", "zap">>
              [] tt = "cidr" -> <<>>
              [] OTHER -> <<"nmap">>)
      [] OTHER -> <<"nmap">>

IsKnownTool(t) == t \in OrchScanners

_determine_scan_tools(scan_type, tt, requested_tools) ==
    IF requested_tools # <<>>
    THEN SelectSeq(requested_tools, IsKnownTool)
    ELSE tool_map(scan_type, tt)

\* _get_target_url: None is modelled as "none"
_get_target_url(tt) ==
    CASE tt = "url" -> "value"
      [] tt = "domain" -> "https"
      [] tt = "ip" -> "http"
      [] OTHER -> "none"

\* Whether _run_scanner reaches scanner.scan for this tool and target type.
ScannerApplies(tool, tt) ==
    IF tool = "nmap" THEN tt \in {"ip", "cidr", "domain"}
    ELSE IF tool \in {"nuclei", "nikto", "zap"} THEN _get_target_url(tt) # "none"
    ELSE FALSE

\* A scanner result is modelled by its severity and by whether
\* str(result).lower() contains the word 'vulnerability'.
\* The result lists a scanner run may return.
ResultLists ==
    {<<>>,
     <<[severity |-> "HIGH", mentions |-> TRUE]>>,
     <<[severity |-> "HIGH", mentions |-> FALSE],
       [severity |-> "HIGH", mentions |-> TRUE]>>,
     <<[severity |-> "INFO", mentions |-> TRUE]>>}

IsVulnerability(r) ==
    r.severity \in {"CRITICAL", "HIGH", "MEDIUM"} /\ r.mentions

IsFinding(r) == ~IsVulnerability(r)

Tag(tool, rs) == [i \in 1..Len(rs) |-> [tool |-> tool, kind |-> rs[i]]]
TaggedVuln(x) == IsVulnerability(x.kind)
TaggedFinding(x) == IsFinding(x.kind)

\* _process_scanner_results: <<vulnerabilities, findings>>
_process_scanner_results(tool, rs) ==
    <<SelectSeq(Tag(tool, rs), TaggedVuln), SelectSeq(Tag(tool, rs), TaggedFinding)>>

\* What a tool's turn in the loop can be:
\*   unavailable  is_available() is false, _run_scanner returns []
\*   raised       scanner.scan raised, _run_scanner returns []
\*   bad          the results were returned but processing them raised
\*   ok           results returned and processed
ToolOutcomes == {"unavailable", "raised", "bad", "ok"}
FailedOutcomes == {"unavailable", "raised", "bad"}

OrchInit ==
    /\ target_type = "ip"
    /\ tools = <<>>
    /\ scan_status = "none"
    /\ scan_progress = 0
    /\ idx = 0
    /\ all_vulnerabilities = <<>>
    /\ all_findings = <<>>
    /\ db_vulnerabilities = <<>>
    /\ db_findings = <<>>
    /\ tool_log = <<>>
    /\ db_raised = FALSE
    /\ events = {}
    /\ publish_failed = FALSE

\* start_scan: the scan row is created (status column default "pending")
\* and _execute_scan is created as a task.
start_scan ==
    /\ opc = "idle"
    /\ \E st \in ScanTypeInputs, tt \in TargetTypes, rt \in RequestedToolInputs :
         /\ target_type' = tt
         /\ tools' = _determine_scan_tools(st, tt, rt)
    /\ scan_status' = "pending"
    /\ scan_progress' = 0
    /\ opc' = "begin"
    /\ UNCHANGED <<idx, all_vulnerabilities, all_findings, db_vulnerabilities,
                   db_findings, tool_log, db_raised, events, publish_failed>>
    /\ UNCHANGED <<bgVars, envVars, cacheVars, optVars, schedVars>>

\* RabbitMQManager.publish_message: the message reaches the exchange, the
\* broker cannot be reached (connect() fails), or basic_publish raises
PublishOutcomes == {"published", "unreachable", "raised"}

\* The ScanMessage built by RealTimeMonitor.publish_scan_progress, the one
\* publisher _broadcast_progress calls
publish_scan_progress ==
    [message_type |-> "scan_progress", status |-> "running"]

\* _broadcast_progress without a handler around the publication
_broadcast_progress_Uncaught(outcome) ==
    IF outcome = "raised" THEN "raises" ELSE "returns"

\* _broadcast_progress: whether it returns or raises; publish_message and
\* _broadcast_progress each catch every exception
_broadcast_progress(outcome) == "returns"

\* What _broadcast_progress leaves on the exchange
Broadcast(outcome) ==
    /\ events' = IF outcome = "published"
                 THEN events \cup {publish_scan_progress} ELSE events
    /\ publish_failed' = (publish_failed \/ outcome # "published")
\* Where _execute_scan goes on after _broadcast_progress
AfterBroadcast(outcome, next) ==
    IF _broadcast_progress(outcome) = "raises" THEN "except" ELSE next

\* A crud call that raises: control goes to the handler of the outer try.
CrudRaises ==
    /\ opc' = "except"
    /\ db_raised' = TRUE

\* line 132: crud.update_scan_status(self.db, scan_id, "running")
ExecBegin ==
    /\ opc = "begin"
    /\ \/ \E outcome \in PublishOutcomes :
             /\ scan_status' = "running"
             /\ Broadcast(outcome)
             /\ opc' = AfterBroadcast(outcome, "loop")
             /\ idx' = 0
             /\ UNCHANGED db_raised
       \/ /\ CrudRaises
          /\ UNCHANGED <<scan_status, idx, events, publish_failed>>
    /\ UNCHANGED <<target_type, tools, scan_progress, all_vulnerabilities,
                   all_findings, db_vulnerabilities, db_findings, tool_log>>
    /\ UNCHANGED <<bgVars, envVars, cacheVars, optVars, schedVars>>

\* lines 141-145: progress of the tool about to run
LoopProgress(i, n) == (i * 90) \div n

ExecProgress ==
    /\ opc = "loop"
    /\ idx < Len(tools)
    /\ \/ \E outcome \in PublishOutcomes :
             /\ scan_progress' = LoopProgress(idx, Len(tools))
             /\ Broadcast(outcome)
             /\ opc' = AfterBroadcast(outcome, "tool")
             /\ UNCHANGED db_raised
       \/ /\ CrudRaises
          /\ UNCHANGED <<scan_progress, events, publish_failed>>
    /\ UNCHANGED <<target_type, tools, scan_status, idx, all_vulnerabilities,
                   all_findings, db_vulnerabilities, db_findings, tool_log>>
    /\ UNCHANGED <<bgVars, envVars, cacheVars, optVars, schedVars>>

\* ExecTool without the inner try/except of lines 147-162: a tool's
\* exception reaches the handler of the outer try.
ExecTool_Uncaught ==
    /\ opc = "tool"
    /\ \E o \in ToolOutcomes, rs \in ResultLists :
         LET tool == tools[idx + 1]
             applies == ScannerApplies(tool, target_type)
             returned == IF o \in {"ok", "bad"} /\ applies THEN rs ELSE <<>>
             pr == _process_scanner_results(tool, returned)
         IN /\ (o \in {"unavailable", "raised"} => rs = <<>>)
            /\ (o = "bad" => rs # <<>>)
            /\ (~applies => o \in {"ok", "unavailable"} /\ rs = <<>>)
            /\ tool_log' = Append(tool_log,
                 [tool |-> tool, outcome |-> o, returned |-> returned])
            /\ IF o = "ok"
               THEN /\ all_vulnerabilities' = all_vulnerabilities \o pr[1]
                    /\ all_findings' = all_findings \o pr[2]
               ELSE UNCHANGED <<all_vulnerabilities, all_findings>>
            /\ opc' = IF o = "bad" THEN "except" ELSE "loop"
    /\ idx' = idx + 1
    /\ UNCHANGED <<target_type, tools, scan_status, scan_progress,
                   db_vulnerabilities, db_findings, db_raised, events,
                   publish_failed>>
    /\ UNCHANGED <<bgVars, envVars, cacheVars, optVars, schedVars>>

\* lines 147-162: one tool's turn; every exception is caught here
ExecTool ==
    /\ opc = "tool"
    /\ \E o \in ToolOutcomes, rs \in ResultLists :
         LET tool == tools[idx + 1]
             applies == ScannerApplies(tool, target_type)
             returned == IF o \in {"ok", "bad"} /\ applies THEN rs ELSE <<>>
             pr == _process_scanner_results(tool, returned)
         IN /\ (o \in {"unavailable", "raised"} => rs = <<>>)
            /\ (o = "bad" => rs # <<>>)
            /\ (~applies => o \in {"ok", "unavailable"} /\ rs = <<>>)
            /\ tool_log' = Append(tool_log,
                 [tool |-> tool, outcome |-> o, returned |-> returned])
            /\ IF o = "ok"
               THEN /\ all_vulnerabilities' = all_vulnerabilities \o pr[1]
                    /\ all_findings' = all_findings \o pr[2]
               ELSE UNCHANGED <<all_vulnerabilities, all_findings>>
    /\ idx' = idx + 1
    /\ opc' = "loop"
    /\ UNCHANGED <<target_type, tools, scan_status, scan_progress,
                   db_vulnerabilities, db_findings, db_raised, events,
                   publish_failed>>
    /\ UNCHANGED <<bgVars, envVars, cacheVars, optVars, schedVars>>

\* lines 165-167: crud.update_scan_progress(self.db, scan_id, 95, stage)
ExecSaving ==
    /\ opc = "loop"
    /\ idx = Len(tools)
    /\ \/ \E outcome \in PublishOutcomes :
             /\ scan_progress' = 95
             /\ Broadcast(outcome)
             /\ opc' = AfterBroadcast(outcome, "save")
             /\ UNCHANGED db_raised
       \/ /\ CrudRaises
          /\ UNCHANGED <<scan_progress, events, publish_failed>>
    /\ UNCHANGED <<target_type, tools, scan_status, idx, all_vulnerabilities,
                   all_findings, db_vulnerabilities, db_findings, tool_log>>
    /\ UNCHANGED <<bgVars, envVars, cacheVars, optVars, schedVars>>

\* lines 169-173: the two bulk inserts, each committed on its own
ExecSaveResults ==
    /\ opc = "save"
    /\ \/ /\ db_vulnerabilities' = all_vulnerabilities
          /\ db_findings' = all_findings
          /\ opc' = "complete"
          /\ UNCHANGED db_raised
       \/ /\ all_vulnerabilities # <<>>
          /\ CrudRaises
          /\ UNCHANGED <<db_vulnerabilities, db_findings>>
       \/ /\ all_findings # <<>>
          /\ db_vulnerabilities' = all_vulnerabilities
          /\ CrudRaises
          /\ UNCHANGED db_findings
    /\ UNCHANGED <<target_type, tools, scan_status, scan_progress, idx,
                   all_vulnerabilities, all_findings, tool_log, events,
                   publish_failed>>
    /\ UNCHANGED <<bgVars, envVars, cacheVars, optVars, schedVars>>

\* line 176: crud.update_scan_status(self.db, scan_id, "completed")
ExecComplete ==
    /\ opc = "complete"
    /\ \/ /\ scan_status' = "completed"
          /\ opc' = "final"
          /\ UNCHANGED db_raised
       \/ /\ CrudRaises
          /\ UNCHANGED scan_status
    /\ UNCHANGED <<target_type, tools, scan_progress, idx, all_vulnerabilities,
                   all_findings, db_vulnerabilities, db_findings, tool_log,
                   events, publish_failed>>
    /\ UNCHANGED <<bgVars, envVars, cacheVars, optVars, schedVars>>

\* lines 177-184: update_scan_progress(100), _broadcast_progress and
\* update_target(last_scanned)
ExecFinal ==
    /\ opc = "final"
    /\ \/ \E outcome \in PublishOutcomes :
             /\ scan_progress' = 100
             /\ Broadcast(outcome)
             /\ opc' = AfterBroadcast(outcome, "done")
             /\ UNCHANGED db_raised
       \/ /\ CrudRaises
          /\ UNCHANGED <<scan_progress, events, publish_failed>>
       \/ \E outcome \in PublishOutcomes :
             /\ scan_progress' = 100
             /\ Broadcast(outcome)
             /\ CrudRaises
    /\ UNCHANGED <<target_type, tools, scan_status, idx, all_vulnerabilities,
                   all_findings, db_vulnerabilities, db_findings, tool_log>>
    /\ UNCHANGED <<bgVars, envVars, cacheVars, optVars, schedVars>>

\* lines 186-190: the handler of the outer try, crud.update_scan_error and
\* _broadcast_progress; when update_scan_error raises too the exception
\* leaves the task.
ExecExcept ==
    /\ opc = "except"
    /\ \/ \E outcome \in PublishOutcomes :
             /\ scan_status' = "failed"
             /\ Broadcast(outcome)
       \/ UNCHANGED <<scan_status, events, publish_failed>>
    /\ opc' = "done"
    /\ UNCHANGED <<target_type, tools, scan_progress, idx, all_vulnerabilities,
                   all_findings, db_vulnerabilities, db_findings, tool_log,
                   db_raised>>
    /\ UNCHANGED <<bgVars, envVars, cacheVars, optVars, schedVars>>

OrchNext ==
    \/ start_scan
    \/ ExecBegin
    \/ ExecProgress
    \/ ExecTool
    \/ ExecSaving
    \/ ExecSaveResults
    \/ ExecComplete
    \/ ExecFinal
    \/ ExecExcept

(***************************************************************************)
(* Background scan paths of api/main.py                                    *)
(***************************************************************************)
\* all_scanners of ScannerManager.__init__, by group, in dict order
basic_scanners == <<"sast", "dependency", "secret">>
advanced_scanners == <<"snyk", "trivy", "semgrep">>
additional_scanners == <<"gitleaks", "safety", "npm_audit", "yarn_audit">>
all_scanners == basic_scanners \o advanced_scanners \o additional_scanners

\* ScannerManager.run_scan treating an unknown scan type as "full"
run_scan_UnknownIsFull(scan_type) ==
    CASE scan_type = "basic" -> basic_scanners
      [] scan_type = "advanced" -> advanced_scanners
      [] scan_type \in Range(all_scanners) -> <<scan_type>>
      [] OTHER -> all_scanners

\* ScannerManager.run_scan: the scanners a scan type runs, "ValueError" for
\* a scan type that is no group and no scanner
run_scan(scan_type) ==
    CASE scan_type = "full" -> all_scanners
      [] scan_type = "basic" -> basic_scanners
      [] scan_type = "advanced" -> advanced_scanners
      [] scan_type \in Range(all_scanners) -> <<scan_type>>
      [] OTHER -> "ValueError"

\* The scan_types arguments considered; <<>> stands for None and [].
ScanTypeLists ==
    {<<>>, <<"basic">>, <<"secret">>, <<"bandit">>, <<"bandit", "secret">>,
     <<"advanced", "sast">>}

BgPaths == {"run_and_process_scan", "run_user_friendly_scan"}

\* What one scanner's scan() does: raises, returns [], returns one finding
ScannerOutcomes == {"raised", "clean", "found"}

\* schemas.VulnerabilityBase: the fields without a default
RequiredVulnFields ==
    {"scan_id", "scanner_name", "scanner_type", "severity", "title", "description"}
\* The keyword arguments main.py passes to schemas.VulnerabilityCreate;
\* "type" is no field of the schema and is ignored.
MainVulnFields ==
    {"scan_id", "type", "severity", "description", "file_path", "line_number"}
\* pydantic validation of VulnerabilityCreate(**given)
VulnerabilityCreateValid(given) == RequiredVulnFields \subseteq given

BgInit ==
    /\ bpath = "none"
    /\ bg_status = "none"
    /\ scan_types = <<>>
    /\ parallel = TRUE
    /\ st_idx = 0
    /\ pending = <<>>
    /\ all_results = <<>>
    /\ clone_ok = FALSE
    /\ finished = {}
    /\ bg_vulns = 0

\* The endpoint creates the scan row (ScanCreate has no status field, the
\* column default "pending" applies) and adds the background task.
BgStart ==
    /\ bpc = "idle"
    /\ \E p \in BgPaths, sts \in ScanTypeLists, par \in BOOLEAN :
         /\ bpath' = p
         /\ scan_types' = sts
         /\ parallel' = IF p = "run_and_process_scan" THEN TRUE ELSE par
    /\ bg_status' = "pending"
    /\ bpc' = "clone"
    /\ UNCHANGED <<st_idx, pending, all_results, clone_ok, finished, bg_vulns>>
    /\ UNCHANGED <<orchVars, envVars, cacheVars, optVars, schedVars>>

\* run_scan_for_project lines 19-36 and 75-83: the git clone; when it fails
\* or times out the function returns [].
BgClone ==
    /\ bpc = "clone"
    /\ \/ /\ clone_ok' = TRUE
          /\ scan_types' = IF scan_types = <<>> THEN <<"basic">> ELSE scan_types
          /\ st_idx' = 1
          /\ bpc' = "types"
          /\ UNCHANGED all_results
       \/ /\ clone_ok' = FALSE
          /\ all_results' = <<>>
          /\ bpc' = "process"
          /\ UNCHANGED <<scan_types, st_idx>>
    /\ UNCHANGED <<bpath, bg_status, parallel, pending, finished, bg_vulns>>
    /\ UNCHANGED <<orchVars, envVars, cacheVars, optVars, schedVars>>

\* run_scan_for_project lines 50-63: the next scan type is handed to
\* run_scan; a ValueError is caught and the loop continues.
BgRunScan ==
    /\ bpc = "types"
    /\ st_idx <= Len(scan_types)
    /\ LET group == run_scan(scan_types[st_idx])
       IN IF group = "ValueError"
          THEN /\ st_idx' = st_idx + 1
               /\ UNCHANGED <<pending, bpc>>
          ELSE /\ pending' = group
               /\ bpc' = "scanners"
               /\ UNCHANGED st_idx
    /\ UNCHANGED <<bpath, bg_status, scan_types, parallel, all_results,
                   clone_ok, finished, bg_vulns>>
    /\ UNCHANGED <<orchVars, envVars, cacheVars, optVars, schedVars>>

\* The scanners of the running scan type that may finish next: any of them
\* under _run_scanners_parallel (as_completed), the first under
\* _run_scanners_sequential and _run_single_scanner.
MayFinish ==
    IF parallel /\ run_scan(scan_types[st_idx]) # <<scan_types[st_idx]>>
    THEN 1..Len(pending)
    ELSE {1}

RemoveAt(s, i) == SubSeq(s, 1, i - 1) \o SubSeq(s, i + 1, Len(s))

\* manager.py lines 90-156: one scanner finishes; its exception is caught
\* (by the group runner, or for a single scanner by run_scan_for_project).
BgScannerDone ==
    /\ bpc = "scanners"
    /\ pending # <<>>
    /\ \E i \in MayFinish, o \in ScannerOutcomes :
         /\ finished' = finished \cup
              {[type |-> st_idx, scanner |-> pending[i], outcome |-> o]}
         /\ all_results' = IF o = "found" THEN Append(all_results, pending[i])
                                          ELSE all_results
         /\ pending' = RemoveAt(pending, i)
         /\ IF Len(pending) = 1
            THEN /\ st_idx' = st_idx + 1
                 /\ bpc' = "types"
            ELSE UNCHANGED <<st_idx, bpc>>
    /\ UNCHANGED <<bpath, bg_status, scan_types, parallel, clone_ok, bg_vulns>>
    /\ UNCHANGED <<orchVars, envVars, cacheVars, optVars, schedVars>>

\* run_scan_for_project line 73: return all_results
BgReturn ==
    /\ bpc = "types"
    /\ st_idx > Len(scan_types)
    /\ bpc' = "process"
    /\ UNCHANGED <<bpath, bg_status, scan_types, parallel, st_idx, pending,
                   all_results, clone_ok, finished, bg_vulns>>
    /\ UNCHANGED <<orchVars, envVars, cacheVars, optVars, schedVars>>

\* main.py lines 290-309: run_and_process_scan after run_scan_for_project.
\* There is no except clause: a raised exception leaves the status alone.
run_and_process_scan ==
    /\ bpc = "process"
    /\ bpath = "run_and_process_scan"
    /\ IF all_results # <<>>
       THEN IF VulnerabilityCreateValid(MainVulnFields)
            THEN /\ bg_vulns' = Len(all_results)
                 /\ bg_status' = "completed"
            ELSE UNCHANGED <<bg_vulns, bg_status>>
       ELSE /\ bg_status' = "failed"
            /\ UNCHANGED bg_vulns
    /\ bpc' = "done"
    /\ UNCHANGED <<bpath, scan_types, parallel, st_idx, pending, all_results,
                   clone_ok, finished>>
    /\ UNCHANGED <<orchVars, envVars, cacheVars, optVars, schedVars>>

\* main.py lines 208-233: run_user_friendly_scan after run_scan_for_project.
run_user_friendly_scan ==
    /\ bpc = "process"
    /\ bpath = "run_user_friendly_scan"
    /\ IF all_results # <<>>
       THEN IF VulnerabilityCreateValid(MainVulnFields)
            THEN /\ bg_vulns' = Len(all_results)
                 /\ bg_status' = "completed"
            ELSE /\ bg_status' = "failed"
                 /\ UNCHANGED bg_vulns
       ELSE /\ bg_status' = "completed"
            /\ UNCHANGED bg_vulns
    /\ bpc' = "done"
    /\ UNCHANGED <<bpath, scan_types, parallel, st_idx, pending, all_results,
                   clone_ok, finished>>
    /\ UNCHANGED <<orchVars, envVars, cacheVars, optVars, schedVars>>

BgNext ==
    \/ BgStart
    \/ BgClone
    \/ BgRunScan
    \/ BgScannerDone
    \/ BgReturn
    \/ run_and_process_scan
    \/ run_user_friendly_scan

(***************************************************************************)
(* The target directories and the clock                                    *)
(***************************************************************************)
\* Two targets whose last three path components are the same.
Path1 == <<"/", "u1", "proj", "src", "app">>
Path2 == <<"/", "u2", "proj", "src", "app">>
Paths == {Path1, Path2}
\* The files of a target, in the order os.walk and sorted(files) yield them
FileNames == <<"a.py", "b.txt">>
\* Bound: st_mtime and st_size take the values 1..MaxStat
MaxStat == 2
\* Bound: the clock advances at most MaxTicks times
MaxTicks == 2

EnvInit ==
    /\ fs = [p \in Paths |-> [f \in Range(FileNames) |-> <<1, 1>>]]
    /\ now = 0

\* hashlib.md5 over "{file}:{st_mtime}:{st_size}" of the walked files. A
\* digest is modelled by the text it was computed from: distinct texts give
\* distinct digests.
PathChecksum(content) ==
    [i \in 1..Len(FileNames) |->
        <<FileNames[i], content[FileNames[i]][1], content[FileNames[i]][2]>>]

(***************************************************************************)
(* AdvancedCacheManager                                                    *)
(***************************************************************************)
\* self.cache_ttl
ScanResultsTTL == 3600
FileHashesTTL == 86400

CacheScanners == {"sast", "secret"}
\* The keyword arguments of a call, as a set of <<name, value>> pairs
KwargsInputs == {{}, {<<"timestamp", "t1">>}}
RelevantKwargs == {"scan_type", "language", "config", "target_type"}

LastParts(parts, n) ==
    IF Len(parts) <= n THEN parts ELSE SubSeq(parts, Len(parts) - n + 1, Len(parts))

\* A Redis key is the sequence of the parts of its text. A part is either
\* plain text or a hex digest; a digest is modelled by its algorithm and the
\* data it was computed from.
Plain(text) == [algo |-> "plain", data |-> text]
Digest(algo, data) == [algo |-> algo, data |-> data]

\* _generate_hierarchical_cache_key: f"{category}:{scanner}:{key_hash}"
_generate_hierarchical_cache_key(category, scanner, path, kwargs) ==
    <<Plain(category), Plain(scanner),
      Digest("sha256", [scanner |-> scanner,
                        path_hierarchy |-> LastParts(path, 3),
                        kwargs |-> {kv \in kwargs : kv[1] \in RelevantKwargs}])>>

\* checksum_key = f"checksum:{path}"
ChecksumKey(path) == <<Plain("checksum"), Plain(path)>>

\* Redis GET: whether the key is live (a nil reply otherwise), and its value
RedisHas(key) == key \in DOMAIN redis
RedisGet(key) == redis[key].value
\* Redis SETEX on a store r
RedisSetex(r, key, ttl, value) ==
    [k \in DOMAIN r \cup {key} |->
        IF k = key THEN [value |-> value, expires |-> now + ttl] ELSE r[k]]
\* Redis DEL on a store r
RedisDelete(r, keys) == [k \in DOMAIN r \ keys |-> r[k]]

\* Redis KEYS f"*{md5(path).hexdigest()[:8]}*": the keys whose text holds
\* the md5 digest of the path.
KeysMatching(path) ==
    {k \in DOMAIN redis :
        \E i \in 1..Len(k) : k[i].algo = "md5" /\ k[i].data = path}

\* _is_cache_valid
_is_cache_valid(path) ==
    LET current_checksum == PathChecksum(fs[path])
    IN IF RedisHas(ChecksumKey(path))
       THEN current_checksum = RedisGet(ChecksumKey(path))
       ELSE FALSE

\* What a get_cached_scan_result call returned: the cached payload (hit) or
\* None; NoLookup when no call has returned since the last invalidation.
\* `checksum` is the target's checksum when the call returned.
\* `fault` is what went wrong inside the call and `raised` the exception
\* that left it.
NoLookup ==
    [path |-> <<>>, hit |-> FALSE, payload |-> <<>>, checksum |-> <<>>,
     fault |-> "none", raised |-> ""]
Returned(path, hit, payload) ==
    [path |-> path, hit |-> hit, payload |-> payload,
     checksum |-> PathChecksum(fs[path]), fault |-> "none", raised |-> ""]

\* The bytes of an entry that gzip.decompress, pickle.loads, json.loads or
\* ScanResult(**result_dict) raises on
Garbage == [corrupt |-> TRUE]
\* get_cached_scan_result without its try/except: the error leaves the call
get_cached_scan_result_except_Reraise(fault) == fault
\* The except clause of get_cached_scan_result: the error is printed and
\* the call goes on to return None
get_cached_scan_result_except(fault) == ""
\* What a lookup that met a fault returned
Faulted(path, fault) ==
    [Returned(path, FALSE, <<>>) EXCEPT
        !.fault = fault, !.raised = get_cached_scan_result_except(fault)]

CacheInit ==
    /\ redis = <<>>
    /\ lookup = NoLookup
    /\ invalidated = {}

\* The target changes: a file's st_mtime or st_size takes another value.
Touch(paths, files, mtimes, sizes) ==
    /\ \E p \in paths, f \in files, m \in mtimes, z \in sizes :
         /\ <<m, z>> # fs[p][f]
         /\ (m = fs[p][f][1] \/ z = fs[p][f][2])
         /\ fs' = [fs EXCEPT ![p][f] = <<m, z>>]
    /\ UNCHANGED <<now, cacheVars, orchVars, bgVars, optVars, schedVars>>

\* Half an hour passes; Redis drops the keys whose TTL has elapsed.
Advance ==
    /\ now < MaxTicks * (ScanResultsTTL \div 2)
    /\ now' = now + (ScanResultsTTL \div 2)
    /\ redis' = [k \in {x \in DOMAIN redis : redis[x].expires > now'} |-> redis[k]]
    /\ UNCHANGED <<fs, lookup, invalidated, orchVars, bgVars, optVars, schedVars>>

\* cache_scan_result(scanner, path, result, **kwargs); the result stored is
\* the scan of the target as it is now.
cache_scan_result_of(scanners, paths, kwargs_inputs) ==
    /\ \E scanner \in scanners, path \in paths, kwargs \in kwargs_inputs :
         LET cache_key == _generate_hierarchical_cache_key("scan", scanner, path, kwargs)
             cached_result == [result |-> fs[path],
                               cached_at |-> now,
                               scanner |-> scanner,
                               path_checksum |-> PathChecksum(fs[path])]
             r1 == RedisSetex(redis, cache_key, ScanResultsTTL, cached_result)
         IN /\ redis' = RedisSetex(r1, ChecksumKey(path), FileHashesTTL,
                                   cached_result.path_checksum)
            /\ invalidated' = invalidated \ {path}
    /\ UNCHANGED <<lookup, envVars, orchVars, bgVars, optVars, schedVars>>

cache_scan_result == cache_scan_result_of(CacheScanners, Paths, KwargsInputs)

\* get_cached_scan_result(scanner, path, **kwargs)
get_cached_scan_result_of(scanners, paths, kwargs_inputs) ==
    /\ \E scanner \in scanners, path \in paths, kwargs \in kwargs_inputs :
         LET cache_key == _generate_hierarchical_cache_key("scan", scanner, path, kwargs)
         IN IF RedisHas(cache_key)
            THEN IF RedisGet(cache_key) = Garbage
                 THEN /\ lookup' = Faulted(path, "corrupt_entry")
                      /\ UNCHANGED redis
                 ELSE IF _is_cache_valid(path)
                 THEN /\ lookup' = Returned(path, TRUE, RedisGet(cache_key))
                      /\ UNCHANGED redis
                 ELSE /\ redis' = RedisDelete(redis, {cache_key})
                      /\ lookup' = Returned(path, FALSE, <<>>)
            ELSE /\ lookup' = Returned(path, FALSE, <<>>)
                 /\ UNCHANGED redis
    /\ UNCHANGED <<invalidated, envVars, orchVars, bgVars, optVars, schedVars>>

get_cached_scan_result ==
    get_cached_scan_result_of(CacheScanners, Paths, KwargsInputs)

\* get_cached_scan_result when a Redis command of the lookup raises
get_cached_scan_result_BackendError ==
    /\ lookup' = Faulted(Path1, "backend_error")
    /\ UNCHANGED <<redis, invalidated, envVars, orchVars, bgVars, optVars,
                   schedVars>>

\* The bytes of a stored scan result are damaged in Redis
CorruptEntry ==
    /\ \E key \in DOMAIN redis :
         /\ key[1] = Plain("scan")
         /\ redis[key].value # Garbage
         /\ redis' = [redis EXCEPT ![key].value = Garbage]
    /\ UNCHANGED <<lookup, invalidated, envVars, orchVars, bgVars, optVars,
                   schedVars>>

\* invalidate_cache_for_path(path)
invalidate_cache_for_path ==
    /\ \E path \in Paths :
         /\ redis' = RedisDelete(redis, KeysMatching(path))
         /\ invalidated' = invalidated \cup {path}
    /\ lookup' = NoLookup
    /\ UNCHANGED <<envVars, orchVars, bgVars, optVars, schedVars>>

CacheNext ==
    \/ Touch({Path1}, {FileNames[1]}, 1..MaxStat, {1})
    \/ Advance
    \/ cache_scan_result
    \/ get_cached_scan_result
    \/ invalidate_cache_for_path

(***************************************************************************)
(* OptimizedScannerManager                                                 *)
(***************************************************************************)
\* Bound: the number of _execute_scanner_async calls
MaxRequests == 2
\* self.cache_ttl
OptCacheTTL == 3600

OptScanners == {"secret", "semgrep"}
OptKwargs == {{}, {<<"language", "python">>}}

\* _get_path_checksum without st_size in the hashed text
_get_path_checksum_NoSize(content) ==
    Digest("md5", [i \in 1..Len(FileNames) |->
                      <<FileNames[i], content[FileNames[i]][1]>>])

\* _get_path_checksum: hasher.hexdigest()[:8] over the walked files' stats
_get_path_checksum(content) == Digest("md5", PathChecksum(content))

\* _generate_cache_key, and the Redis key f"scan:{cache_key}" built from it
_generate_cache_key(scanner_name, path, kwargs) ==
    <<Plain("scan"),
      Digest("sha256", [scanner |-> scanner_name,
                        path |-> path,
                        checksum |-> _get_path_checksum(fs[path]),
                        kwargs |-> kwargs])>>

\* ScanResult(scanner_name, status, findings, cache_hit); the findings of a
\* run are modelled by the content the adapter scanned.
ScanResult(scanner_name, status, findings, cache_hit) ==
    [scanner_name |-> scanner_name, status |-> status,
     findings |-> findings, cache_hit |-> cache_hit]

NoRequest ==
    [pc |-> "new", scanner_name |-> "", kwargs |-> {}, cache_key |-> <<>>,
     key_content |-> <<>>, prior |-> {}, invoked |-> FALSE,
     lookup_fault |-> "none",
     result |-> ScanResult("", "none", <<>>, FALSE)]

\* An entry point's call: its arguments, the exception it raised, the scanner
\* adapters it invoked and the scanners it yielded a result for
Call(entry, arg, raised, invoked, yielded) ==
    [entry |-> entry, arg |-> arg, raised |-> raised, invoked |-> invoked,
     yielded |-> yielded]
NoCall == Call("", "", "", {}, {})

OptInit ==
    /\ req = [r \in 1..MaxRequests |-> NoRequest]
    /\ successes = {}
    /\ last_call = NoCall

\* _create_scan_task(scanner_name, path, **kwargs) on Path1: the cache key is
\* computed from the stats the files have now.
_create_scan_task(r) ==
    /\ req[r].pc = "new"
    /\ \A q \in 1..(r - 1) : req[q].pc # "new"
    /\ \E scanner_name \in OptScanners, kwargs \in OptKwargs :
         req' = [req EXCEPT ![r] =
                   [@ EXCEPT !.pc = "created",
                             !.scanner_name = scanner_name,
                             !.kwargs = kwargs,
                             !.cache_key = _generate_cache_key(scanner_name, Path1, kwargs),
                             !.key_content = fs[Path1]]]
    /\ UNCHANGED <<successes, last_call, envVars, cacheVars, orchVars, bgVars,
                   schedVars>>

\* The successful runs whose result was cached less than cache_ttl ago
Unexpired == {s \in successes : now < s.stored_at + OptCacheTTL}

\* _execute_scanner_async up to the adapter call: _get_cached_result returns
\* the stored result with cache_hit = True, or the adapter is started.
_get_cached_result(r) ==
    /\ req[r].pc = "created"
    /\ IF RedisHas(req[r].cache_key) /\ RedisGet(req[r].cache_key) = Garbage
       THEN req' = [req EXCEPT ![r] =
                      [@ EXCEPT !.pc = "running",
                                !.prior = Unexpired,
                                !.lookup_fault = "corrupt_entry",
                                !.invoked = TRUE]]
       ELSE IF RedisHas(req[r].cache_key)
       THEN req' = [req EXCEPT ![r] =
                      [@ EXCEPT !.pc = "done",
                                !.prior = Unexpired,
                                !.result = [RedisGet(req[r].cache_key)
                                              EXCEPT !.cache_hit = TRUE]]]
       ELSE req' = [req EXCEPT ![r] =
                      [@ EXCEPT !.pc = "running",
                                !.prior = Unexpired,
                                !.invoked = TRUE]]
    /\ UNCHANGED <<successes, last_call, envVars, cacheVars, orchVars, bgVars,
                   schedVars>>

\* _execute_scanner_async up to the adapter call when redis_client.get
\* raises: _get_cached_result logs it and returns None
_get_cached_result_BackendError(r) ==
    /\ req[r].pc = "created"
    /\ req' = [req EXCEPT ![r] =
                 [@ EXCEPT !.pc = "running",
                           !.prior = Unexpired,
                           !.lookup_fault = "backend_error",
                           !.invoked = TRUE]]
    /\ UNCHANGED <<successes, last_call, envVars, cacheVars, orchVars, bgVars,
                   schedVars>>

\* _execute_scanner_async from the adapter's return, with the failed result
\* of the except clause cached as well
_cache_result_AlsoFailed(r) ==
    /\ req[r].pc = "running"
    /\ \E raised \in BOOLEAN :
         LET result == IF raised
                       THEN ScanResult(req[r].scanner_name, "failed", <<>>, FALSE)
                       ELSE ScanResult(req[r].scanner_name, "success",
                                       fs[Path1], FALSE)
         IN /\ req' = [req EXCEPT ![r] = [@ EXCEPT !.pc = "done",
                                                   !.result = result]]
            /\ redis' = RedisSetex(redis, req[r].cache_key, OptCacheTTL, result)
            /\ successes' = IF raised THEN successes
                            ELSE successes \cup
                                   {[scanner_name |-> req[r].scanner_name,
                                     kwargs |-> req[r].kwargs,
                                     content |-> req[r].key_content,
                                     stored_at |-> now]}
    /\ UNCHANGED <<lookup, invalidated, last_call, envVars, orchVars, bgVars,
                   schedVars>>

\* _execute_scanner_async from the adapter's return: a success is cached by
\* _cache_result and returned; an exception gives a failed result.
_cache_result(r) ==
    /\ req[r].pc = "running"
    /\ \E raised \in BOOLEAN :
         IF raised
         THEN /\ req' = [req EXCEPT ![r] =
                           [@ EXCEPT !.pc = "done",
                                     !.result = ScanResult(req[r].scanner_name,
                                                           "failed", <<>>, FALSE)]]
              /\ UNCHANGED <<redis, successes>>
         ELSE LET result == ScanResult(req[r].scanner_name, "success",
                                       fs[Path1], FALSE)
              IN /\ req' = [req EXCEPT ![r] = [@ EXCEPT !.pc = "done",
                                                        !.result = result]]
                 /\ redis' = RedisSetex(redis, req[r].cache_key, OptCacheTTL, result)
                 /\ successes' = successes \cup
                       {[scanner_name |-> req[r].scanner_name,
                         kwargs |-> req[r].kwargs,
                         content |-> req[r].key_content,
                         stored_at |-> now]}
    /\ UNCHANGED <<lookup, invalidated, last_call, envVars, orchVars, bgVars,
                   schedVars>>

(***************************************************************************)
(* The entry points ScannerManager.run_scan,                               *)
(* OptimizedScannerManager.run_optimized_scan and run_incremental_scan,    *)
(* each taken as one step on Path1 without keyword arguments               *)
(***************************************************************************)
\* The scan_type arguments: two groups, a registered scanner, and a name that
\* is neither (the registered name of Bandit is "sast")
EntryScanTypes == {"full", "basic", "secret", "bandit"}
\* The previous_scan_id arguments; "" stands for None
PreviousScanIds == {"", "scan-1"}
\* The adapters whose scan() raises in a run
AdapterFailures == {{}, {"secret"}}

\* ScannerManager.run_scan(scan_type, path): every scanner of the group is
\* run by _run_single_scanner, which calls its adapter
ScannerManager_run_scan ==
    /\ \E scan_type \in EntryScanTypes :
         LET group == run_scan(scan_type)
         IN last_call' =
               IF group = "ValueError"
               THEN Call("run_scan", scan_type, "ValueError", {}, {})
               ELSE Call("run_scan", scan_type, "", Range(group), Range(group))
    /\ UNCHANGED <<req, successes, envVars, cacheVars, orchVars, bgVars,
                   schedVars>>

\* run_optimized_scan's scanner_names, "ValueError" where it raises
scanner_names(scan_type) ==
    CASE scan_type = "full" -> all_scanners
      [] scan_type = "basic" -> basic_scanners
      [] scan_type = "advanced" -> advanced_scanners
      [] scan_type \in Range(all_scanners) -> <<scan_type>>
      [] OTHER -> "ValueError"

\* The scanners of names that _get_cached_result finds in the cache
CachedScanners(names) ==
    {n \in names : RedisHas(_generate_cache_key(n, Path1, {}))}

\* Redis after _cache_result has stored the results of the scanners in names
RECURSIVE CacheResults(_, _)
CacheResults(r, names) ==
    IF names = {} THEN r
    ELSE LET n == CHOOSE x \in names : TRUE
         IN CacheResults(
               RedisSetex(r, _generate_cache_key(n, Path1, {}), OptCacheTTL,
                          ScanResult(n, "success", fs[Path1], FALSE)),
               names \ {n})

\* run_optimized_scan(scan_type, path) consumed to its end: a task per
\* scanner name, each run by _execute_scanner_async, which returns the cached
\* result or calls the adapter and caches a success
OptimizedScan(entry, arg, scan_type) ==
    LET names == scanner_names(scan_type)
    IN IF names = "ValueError"
       THEN /\ last_call' = Call(entry, arg, "ValueError", {}, {})
            /\ UNCHANGED redis
       ELSE \E failures \in AdapterFailures :
              LET misses == Range(names) \ CachedScanners(Range(names))
              IN /\ last_call' = Call(entry, arg, "", misses, Range(names))
                 /\ redis' = CacheResults(redis, misses \ failures)

run_optimized_scan ==
    /\ \E scan_type \in EntryScanTypes :
         OptimizedScan("run_optimized_scan", scan_type, scan_type)
    /\ UNCHANGED <<req, successes, lookup, invalidated, envVars, orchVars,
                   bgVars, schedVars>>

\* run_incremental_scan(path, previous_scan_id): without a previous scan it
\* is run_optimized_scan("full", path); with one, _get_changed_files returns
\* [] and the cached results of all_scanners are yielded
run_incremental_scan ==
    /\ \E previous_scan_id \in PreviousScanIds :
         IF previous_scan_id = ""
         THEN OptimizedScan("run_incremental_scan", previous_scan_id, "full")
         ELSE /\ last_call' = Call("run_incremental_scan", previous_scan_id, "",
                                    {}, CachedScanners(Range(all_scanners)))
              /\ UNCHANGED redis
    /\ UNCHANGED <<req, successes, lookup, invalidated, envVars, orchVars,
                   bgVars, schedVars>>

EntryNext ==
    \/ Touch({Path1}, {FileNames[1]}, 1..MaxStat, {1})
    \/ Advance
    \/ ScannerManager_run_scan
    \/ run_optimized_scan
    \/ run_incremental_scan

(***************************************************************************)
(* IncrementalScanManager.get_incremental_scan_plan                        *)
(*                                                                         *)
(* A file name or pattern is the pair of its stem and its last extension:  *)
(* "app.py" is <<"app", ".py">>, "Dockerfile" is <<"Dockerfile", "">> and  *)
(* the pattern ".py" is <<"", ".py">>.                                     *)
(***************************************************************************)
Star == <<"*", "">>
\* scanner_file_patterns of _scanner_affected_by_changes
scanner_file_patterns ==
    [sast |-> {<<"", ".py">>},
     dependency |-> {<<"requirements", ".txt">>, <<"setup", ".py">>,
                     <<"pyproject", ".toml">>, <<"Pipfile", "">>},
     secret |-> {Star},
     snyk |-> {<<"package", ".json">>, <<"requirements", ".txt">>,
               <<"pom", ".xml">>, <<"build", ".gradle">>},
     trivy |-> {<<"Dockerfile", "">>, <<"requirements", ".txt">>,
                <<"package", ".json">>},
     semgrep |-> {<<"", ".py">>, <<"", ".js">>, <<"", ".ts">>, <<"", ".java">>,
                  <<"", ".go">>},
     gitleaks |-> {Star},
     safety |-> {<<"requirements", ".txt">>, <<"setup", ".py">>},
     npm_audit |-> {<<"package", ".json">>, <<"package-lock", ".json">>},
     yarn_audit |-> {<<"package", ".json">>, <<"yarn", ".lock">>}]

\* Path(file_path).suffix: a name that is only a dot and letters has none
PathSuffix(file) == IF file[1] = "" THEN "" ELSE file[2]
\* pattern.startswith(".")
StartsWithDot(pattern) == pattern[1] = "" /\ pattern[2] # ""
\* pattern as a string to compare with the suffix
PatternText(pattern) == IF pattern[1] = "" THEN pattern[2] ELSE "no-suffix"

\* One turn of the loops over changed_files and patterns
PatternHit(pattern, file) ==
    IF pattern = Star THEN TRUE
    ELSE IF StartsWithDot(pattern) /\ PathSuffix(file) = PatternText(pattern)
    THEN TRUE
    ELSE file = pattern

\* _scanner_affected_by_changes with no patterns for a scanner without a table
_scanner_affected_by_changes_NoDefault(scanner, changed_files) ==
    LET patterns == IF scanner \in DOMAIN scanner_file_patterns
                    THEN scanner_file_patterns[scanner] ELSE {}
    IN \E file \in changed_files, pattern \in patterns : PatternHit(pattern, file)

\* _scanner_affected_by_changes
_scanner_affected_by_changes(scanner, changed_files) ==
    LET patterns == IF scanner \in DOMAIN scanner_file_patterns
                    THEN scanner_file_patterns[scanner] ELSE {Star}
    IN \E file \in changed_files, pattern \in patterns : PatternHit(pattern, file)

\* The files git reports as changed
ChangedFileInputs ==
    {<<"app", ".py">>, <<"requirements", ".txt">>, <<"Dockerfile", "">>,
     <<"README", ".md">>, <<"package", ".json">>}
\* The scanners arguments; "custom" has no pattern table
PlanScannerInputs ==
    {<<"sast", "secret", "trivy">>, <<"dependency", "custom">>,
     <<"npm_audit", "semgrep", "npm_audit">>}

NoPlan ==
    [called |-> FALSE, changed_files |-> {}, scanners |-> <<>>,
     full_scan_needed |-> <<>>, partial_scan_needed |-> <<>>,
     cache_valid |-> <<>>]

\* The class get_incremental_scan_plan appends a scanner to
PlanClass(scanner, changed_files, cached) ==
    IF changed_files # {} /\ _scanner_affected_by_changes(scanner, changed_files)
    THEN "partial_scan_needed"
    ELSE IF scanner \in cached THEN "cache_valid" ELSE "full_scan_needed"

\* The scanners of the list, in order, that go to one class
RECURSIVE PlanList(_, _, _, _)
PlanList(scanners, changed_files, cached, class) ==
    IF scanners = <<>> THEN <<>>
    ELSE (IF PlanClass(Head(scanners), changed_files, cached) = class
          THEN <<Head(scanners)>> ELSE <<>>)
            \o PlanList(Tail(scanners), changed_files, cached, class)

\* get_incremental_scan_plan(path, scanners); cached are the scanners for
\* which cache_manager.get_cached_scan_result returns a result
get_incremental_scan_plan ==
    /\ \E changed_files \in SUBSET ChangedFileInputs,
          scanners \in PlanScannerInputs :
         \E cached \in SUBSET Range(scanners) :
            scan_plan' =
               [called |-> TRUE, changed_files |-> changed_files,
                scanners |-> scanners,
                full_scan_needed |->
                    PlanList(scanners, changed_files, cached, "full_scan_needed"),
                partial_scan_needed |->
                    PlanList(scanners, changed_files, cached, "partial_scan_needed"),
                cache_valid |->
                    PlanList(scanners, changed_files, cached, "cache_valid")]
    /\ UNCHANGED <<task_queue, running_tasks, completed_tasks, average_duration,
                   scheduler_stats, resources, next_task, denied, admission,
                   monitor, engineVars, pool, envVars, cacheVars, optVars, orchVars, bgVars>>

PlanNext == get_incremental_scan_plan

(***************************************************************************)
(* OptimizedScannerManager.run_optimized_scan: the bounded executions      *)
(*                                                                         *)
(* The executions of one call differ only in the scanner, so they are      *)
(* counted by where they stand: waiting for the semaphore, holding it in   *)
(* the cache lookup, holding it while the adapter runs, or done.           *)
(***************************************************************************)
\* Bound: psutil.cpu_count() is 1..MaxCpuCount
MaxCpuCount == 4
PoolScanTypes == {"full", "basic", "advanced", "secret"}
Min(a, b) == IF a < b THEN a ELSE b

NoPool ==
    [active |-> FALSE, scan_type |-> "", max_workers |-> 0, semaphore |-> 0,
     waiting |-> 0, looking |-> 0, executing |-> 0, done |-> 0]

\* What the actions of the call leave alone
PoolFrame ==
    UNCHANGED <<task_queue, running_tasks, completed_tasks, average_duration,
                scheduler_stats, resources, next_task, denied, admission,
                monitor, scan_plan, engineVars, envVars, cacheVars, optVars,
                orchVars, bgVars>>

\* run_optimized_scan up to the first await of a result: the manager was
\* built with max_workers = min(psutil.cpu_count(), len(all_scanners)), the
\* tasks are created and ordered, the semaphore gets
\* min(max_workers, len(optimized_tasks)) permits, and as_completed
\* schedules one bounded_scanner_execution per task.
run_optimized_scan_start ==
    /\ ~pool.active
    /\ \E scan_type \in PoolScanTypes, cpu_count \in 1..MaxCpuCount :
         LET max_workers == Min(cpu_count, Len(all_scanners))
             optimized_tasks == scanner_names(scan_type)
             max_concurrent == Min(max_workers, Len(optimized_tasks))
         IN pool' = [active |-> TRUE, scan_type |-> scan_type,
                     max_workers |-> max_workers,
                     semaphore |-> max_concurrent,
                     waiting |-> Len(optimized_tasks),
                     looking |-> 0, executing |-> 0, done |-> 0]
    /\ PoolFrame

\* bounded_scanner_execution entering _execute_scanner_async without the
\* semaphore
bounded_scanner_execution_Unbounded ==
    /\ pool.active
    /\ pool.waiting > 0
    /\ pool' = [pool EXCEPT !.waiting = @ - 1, !.looking = @ + 1]
    /\ PoolFrame

\* bounded_scanner_execution: `async with semaphore` is entered when a
\* permit is free, and _execute_scanner_async awaits the cache lookup
bounded_scanner_execution ==
    /\ pool.active
    /\ pool.waiting > 0
    /\ pool.semaphore > 0
    /\ pool' = [pool EXCEPT !.waiting = @ - 1, !.looking = @ + 1,
                            !.semaphore = @ - 1]
    /\ PoolFrame

\* _execute_scanner_async after the lookup: a hit returns, which releases
\* the permit; a miss starts the adapter through run_in_executor
_execute_scanner_async_lookup ==
    /\ pool.looking > 0
    /\ \E hit \in BOOLEAN :
         pool' = IF hit
                 THEN [pool EXCEPT !.looking = @ - 1, !.done = @ + 1,
                                   !.semaphore = @ + 1]
                 ELSE [pool EXCEPT !.looking = @ - 1, !.executing = @ + 1]
    /\ PoolFrame

\* _execute_scanner_async after the adapter returned or raised: the result
\* is returned and the permit released
_execute_scanner_async_return ==
    /\ pool.executing > 0
    /\ pool' = [pool EXCEPT !.executing = @ - 1, !.done = @ + 1,
                            !.semaphore = @ + 1]
    /\ PoolFrame

\* run_optimized_scan after the last result: the generator ends
run_optimized_scan_end ==
    /\ pool.active
    /\ pool.waiting = 0 /\ pool.looking = 0 /\ pool.executing = 0
    /\ pool' = NoPool
    /\ PoolFrame

PoolNext ==
    \/ run_optimized_scan_start
    \/ bounded_scanner_execution
    \/ _execute_scanner_async_lookup
    \/ _execute_scanner_async_return
    \/ run_optimized_scan_end

\* Both cache managers on a Redis that can fail and can hold damaged
\* entries; AdvancedCacheManager is called for one scanner on Path1
LookupNext ==
    \/ cache_scan_result_of({"sast"}, {Path1}, {{}})
    \/ get_cached_scan_result_of({"sast"}, {Path1}, {{}})
    \/ get_cached_scan_result_BackendError
    \/ CorruptEntry
    \/ \E r \in 1..MaxRequests : _create_scan_task(r)
    \/ \E r \in 1..MaxRequests : _get_cached_result(r)
    \/ \E r \in 1..MaxRequests : _get_cached_result_BackendError(r)
    \/ \E r \in 1..MaxRequests : _cache_result(r)

OptNext ==
    \/ Touch({Path1}, {FileNames[1]}, 1..MaxStat, {1})
    \/ Touch({Path1}, {FileNames[2]}, {1}, 1..MaxStat)
    \/ Advance
    \/ \E r \in 1..MaxRequests : _create_scan_task(r)
    \/ \E r \in 1..MaxRequests : _get_cached_result(r)
    \/ \E r \in 1..MaxRequests : _cache_result(r)

(***************************************************************************)
(* IntelligentTaskScheduler and SystemResourceMonitor                      *)
(*                                                                         *)
(* Durations are in seconds, as in the source. estimated_start_time and    *)
(* estimated_completion_time are in half seconds, which keeps the factor   *)
(* 0.5 of _calculate_wait_time exact.                                      *)
(***************************************************************************)
\* Bound: the number of schedule_task calls
MaxTasks == 3
\* Bound: the scheduler's clock advances at most MaxSchedTicks times
MaxSchedTicks == 1
\* Bound: the number of queued tasks that are given dependencies
MaxDeps == 1

\* TaskPriority
CRITICAL == 1
HIGH == 2
MEDIUM == 3
LOW == 4

\* self.scanner_profiles: priority, requirements and initial metrics
scanner_profiles ==
    [secret |-> [priority |-> CRITICAL, cpu_cores |-> 1, memory_mb |-> 64,
                 average_duration |-> 20],
     sast   |-> [priority |-> HIGH, cpu_cores |-> 2, memory_mb |-> 256,
                 average_duration |-> 45],
     trivy  |-> [priority |-> MEDIUM, cpu_cores |-> 2, memory_mb |-> 384,
                 average_duration |-> 60]]
\* The profile schedule_task builds for a scanner without one:
\* ResourceRequirement() and TaskMetrics()
DefaultProfile ==
    [priority |-> MEDIUM, cpu_cores |-> 1, memory_mb |-> 128,
     average_duration |-> 60]
\* The scanner_name arguments: three profiled scanners and an unknown one
SchedScanners == DOMAIN scanner_profiles \cup {"custom"}
Profile(scanner_name) ==
    IF scanner_name \in DOMAIN scanner_profiles
    THEN scanner_profiles[scanner_name] ELSE DefaultProfile

\* task.metrics.average_duration: a task shares the metrics object of its
\* scanner's profile; an unknown scanner's task has a TaskMetrics() of its own
MetricsDuration(task) ==
    IF task.scanner_name \in DOMAIN scanner_profiles
    THEN average_duration[task.scanner_name] ELSE DefaultProfile.average_duration

\* The snapshots get_current_resources may hold, performance_score in
\* percent: an idle system, one short of cores and memory, one under stress
IdleResources ==
    [available_cpu_cores |-> 4, available_memory_mb |-> 1024, performance_score |-> 50]
ResourceLevels ==
    {IdleResources,
     [available_cpu_cores |-> 1, available_memory_mb |-> 100, performance_score |-> 50],
     [available_cpu_cores |-> 4, available_memory_mb |-> 1024, performance_score |-> 20]}

\* SystemResourceMonitor.can_handle_task without its memory test
can_handle_task_NoMemory(requirements) ==
    IF requirements.cpu_cores > resources.available_cpu_cores THEN FALSE
    ELSE IF resources.performance_score < 30 THEN FALSE
    ELSE TRUE

\* SystemResourceMonitor.can_handle_task refusing a score of exactly 0.3
can_handle_task_StrictScore(requirements) ==
    IF requirements.cpu_cores > resources.available_cpu_cores THEN FALSE
    ELSE IF requirements.memory_mb > resources.available_memory_mb THEN FALSE
    ELSE IF resources.performance_score <= 30 THEN FALSE
    ELSE TRUE

\* SystemResourceMonitor.can_handle_task
can_handle_task(requirements) ==
    IF requirements.cpu_cores > resources.available_cpu_cores THEN FALSE
    ELSE IF requirements.memory_mb > resources.available_memory_mb THEN FALSE
    ELSE IF resources.performance_score < 30 THEN FALSE
    ELSE TRUE

\* ScheduledTask.__lt__ comparing the estimated completion times only
__lt__TimeOnly(self, other) ==
    self.estimated_completion_time < other.estimated_completion_time

\* ScheduledTask.__lt__
__lt__(self, other) ==
    IF self.priority # other.priority
    THEN self.priority < other.priority
    ELSE self.estimated_completion_time < other.estimated_completion_time

\* heapq._siftdown(heap, startpos, pos); positions count from 0
RECURSIVE SiftDownLoop(_, _, _, _)
SiftDownLoop(heap, startpos, pos, newitem) ==
    IF pos > startpos /\ __lt__(newitem, heap[((pos - 1) \div 2) + 1])
    THEN SiftDownLoop([heap EXCEPT ![pos + 1] = heap[((pos - 1) \div 2) + 1]],
                      startpos, (pos - 1) \div 2, newitem)
    ELSE [heap EXCEPT ![pos + 1] = newitem]
_siftdown(heap, startpos, pos) == SiftDownLoop(heap, startpos, pos, heap[pos + 1])

\* heapq._siftup(heap, pos)
RECURSIVE SiftUpLoop(_, _, _, _)
SiftUpLoop(heap, startpos, pos, newitem) ==
    LET childpos == 2 * pos + 1
        rightpos == childpos + 1
        smaller == IF rightpos < Len(heap)
                      /\ ~__lt__(heap[childpos + 1], heap[rightpos + 1])
                   THEN rightpos ELSE childpos
    IN IF childpos < Len(heap)
       THEN SiftUpLoop([heap EXCEPT ![pos + 1] = heap[smaller + 1]],
                       startpos, smaller, newitem)
       ELSE _siftdown([heap EXCEPT ![pos + 1] = newitem], startpos, pos)
_siftup(heap, pos) == SiftUpLoop(heap, pos, pos, heap[pos + 1])

\* heapq.heappush(heap, item)
heappush(heap, item) == _siftdown(Append(heap, item), 0, Len(heap))
\* heapq.heappop(heap): the heap left once heap[0] has been returned
heappop(heap) ==
    LET lastelt == heap[Len(heap)]
        rest == SubSeq(heap, 1, Len(heap) - 1)
    IN IF rest # <<>> THEN _siftup([rest EXCEPT ![1] = lastelt], 0) ELSE rest
\* heapq.heapify(x)
RECURSIVE HeapifyFrom(_, _)
HeapifyFrom(x, i) == IF i < 0 THEN x ELSE HeapifyFrom(_siftup(x, i), i - 1)
heapify(x) == HeapifyFrom(x, (Len(x) \div 2) - 1)

RECURSIVE SumDurations(_)
SumDurations(queue) ==
    IF queue = <<>> THEN 0
    ELSE MetricsDuration(Head(queue)) + SumDurations(Tail(queue))

\* _calculate_wait_time, in half seconds: queue_length * average_duration is
\* the sum of the queued tasks' average durations
_calculate_wait_time(new_task) ==
    IF Len(task_queue) = 0 /\ DOMAIN running_tasks = {} THEN 0
    ELSE SumDurations(task_queue)
            * (IF can_handle_task(new_task.requirements) THEN 1 ELSE 2)

\* _dependencies_satisfied
_dependencies_satisfied(task) ==
    \A dep_id \in task.dependencies : dep_id \in DOMAIN completed_tasks

\* A task with its estimated times computed at the current time
WithEstimates(task) ==
    [task EXCEPT
        !.estimated_start_time = 2 * now + _calculate_wait_time(task),
        !.estimated_completion_time =
            2 * now + _calculate_wait_time(task) + 2 * MetricsDuration(task)]

NoneReturned == [status |-> "None", task |-> <<>>]
\* Bound: the half seconds that pass
MaxClock == 5
\* self.update_interval, 1.0 s
update_interval == 2
\* time.time() when the monitor is constructed: long after the epoch
ClockAtStart == update_interval + 1
\* The methods that read the snapshot through get_current_resources
MonitorCallers ==
    {"get_current_resources", "can_handle_task", "get_optimal_worker_count"}
NoMonitor ==
    [clock |-> ClockAtStart, last_update |-> 0, refreshes |-> {},
     caller |-> "", refreshed |-> FALSE]

\* pc is where _task_execution_loop stands: "idle" at the top of a turn,
\* "awaiting" at the await of run_in_executor; task is the task it dispatched
NoEngine ==
    [rebalances |-> 0, reordered |-> FALSE, pc |-> "idle", task |-> <<>>]

NoDenied == [task_id |-> <<>>, snapshot |-> IdleResources]
NoAdmission ==
    [called |-> FALSE, requirements |-> [cpu_cores |-> 0, memory_mb |-> 0],
     snapshot |-> IdleResources, result |-> FALSE]

SchedInit ==
    /\ task_queue = <<>>
    /\ running_tasks = <<>>
    /\ completed_tasks = <<>>
    /\ average_duration = [n \in DOMAIN scanner_profiles |->
                              scanner_profiles[n].average_duration]
    /\ scheduler_stats = [tasks_scheduled |-> 0, tasks_completed |-> 0,
                          tasks_failed |-> 0]
    /\ resources = IdleResources
    /\ next_task = NoneReturned
    /\ denied = NoDenied
    /\ admission = NoAdmission
    /\ monitor = NoMonitor
    /\ scan_plan = NoPlan
    /\ engine = NoEngine
    /\ pool = NoPool

\* schedule_task(scanner_name, path) with the default task_id, which is the
\* scanner name and the clock reading
schedule_task ==
    /\ scheduler_stats.tasks_scheduled < MaxTasks
    /\ \E scanner_name \in SchedScanners :
         LET task == [task_id |-> <<scanner_name, now>>,
                      scanner_name |-> scanner_name,
                      priority |-> Profile(scanner_name).priority,
                      requirements |->
                          [cpu_cores |-> Profile(scanner_name).cpu_cores,
                           memory_mb |-> Profile(scanner_name).memory_mb],
                      dependencies |-> {},
                      estimated_start_time |-> 0,
                      estimated_completion_time |-> 0]
         IN task_queue' = heappush(task_queue, WithEstimates(task))
    /\ scheduler_stats' = [scheduler_stats EXCEPT !.tasks_scheduled = @ + 1]
    /\ UNCHANGED <<running_tasks, completed_tasks, average_duration, resources,
                   next_task, denied, envVars, cacheVars, optVars, orchVars,
                   bgVars>>
    /\ UNCHANGED <<admission, restVars>>

\* ScheduledTask.dependencies: a caller names, on a queued task without
\* dependencies, one other task the scheduler has been given
ScheduledIds ==
    {task_queue[i].task_id : i \in 1..Len(task_queue)}
        \cup DOMAIN running_tasks \cup DOMAIN completed_tasks
DependentTasks ==
    {i \in 1..Len(task_queue) : task_queue[i].dependencies # {}}
set_dependencies ==
    /\ Cardinality(DependentTasks) < MaxDeps
    /\ \E i \in 1..Len(task_queue) :
         \E dep_id \in ScheduledIds \ {task_queue[i].task_id} :
            /\ task_queue[i].dependencies = {}
            /\ task_queue' = [task_queue EXCEPT ![i].dependencies = {dep_id}]
    /\ UNCHANGED <<running_tasks, completed_tasks, average_duration,
                   scheduler_stats, resources, next_task, denied, envVars,
                   cacheVars, optVars, orchVars, bgVars>>
    /\ UNCHANGED <<admission, restVars>>

\* get_next_task looking past a head that is not ready for the first queued
\* task that is
get_next_task_SkipAhead ==
    /\ next_task.status # "task"
    /\ LET ready == {i \in 1..Len(task_queue) :
                       /\ _dependencies_satisfied(task_queue[i])
                       /\ can_handle_task(task_queue[i].requirements)}
       IN IF ready # {}
          THEN LET i == CHOOSE j \in ready : \A k \in ready : j <= k
               IN /\ next_task' = [status |-> "task", task |-> task_queue[i]]
                  /\ task_queue' = heapify(RemoveAt(task_queue, i))
                  /\ denied' = IF i > 1
                               THEN [task_id |-> task_queue[1].task_id,
                                     snapshot |-> resources]
                               ELSE denied
          ELSE /\ next_task' = NoneReturned
               /\ denied' = IF task_queue # <<>>
                            THEN [task_id |-> task_queue[1].task_id,
                                  snapshot |-> resources]
                            ELSE denied
               /\ UNCHANGED task_queue
    /\ UNCHANGED <<running_tasks, completed_tasks, average_duration,
                   scheduler_stats, resources, admission, restVars, envVars,
                   cacheVars,
                   optVars, orchVars, bgVars>>

\* get_next_task, called once the task returned before has been marked running
get_next_task ==
    /\ next_task.status # "task"
    /\ IF /\ task_queue # <<>>
          /\ _dependencies_satisfied(task_queue[1])
          /\ can_handle_task(task_queue[1].requirements)
       THEN /\ next_task' = [status |-> "task", task |-> task_queue[1]]
            /\ task_queue' = heappop(task_queue)
            /\ UNCHANGED denied
       ELSE /\ next_task' = NoneReturned
            /\ denied' = IF task_queue # <<>>
                         THEN [task_id |-> task_queue[1].task_id,
                               snapshot |-> resources]
                         ELSE denied
            /\ UNCHANGED task_queue
    /\ UNCHANGED <<running_tasks, completed_tasks, average_duration,
                   scheduler_stats, resources, envVars, cacheVars, optVars,
                   orchVars, bgVars>>
    /\ UNCHANGED <<admission, restVars>>

\* mark_task_running(task) for the task get_next_task returned
mark_task_running ==
    /\ next_task.status = "task"
    /\ running_tasks' =
          [id \in DOMAIN running_tasks \cup {next_task.task.task_id} |->
              IF id = next_task.task.task_id
              THEN next_task.task.scanner_name ELSE running_tasks[id]]
    /\ next_task' = NoneReturned
    /\ denied' = NoDenied
    /\ UNCHANGED <<task_queue, completed_tasks, average_duration,
                   scheduler_stats, resources, envVars, cacheVars, optVars,
                   orchVars, bgVars>>
    /\ UNCHANGED <<admission, restVars>>

\* mark_task_completed(task_id, success, execution_time) for a running task,
\* with _update_scanner_metrics. The execution times are those for which the
\* moving average (alpha = 0.1) is a whole number of seconds. The start and
\* completion times and the average_execution_time statistic, which no
\* decision of the scheduler reads, are left out.
MarkCompleted(task_id, success, slower) ==
    LET task == [scanner_name |-> running_tasks[task_id]]
        execution_time == MetricsDuration(task) + (IF slower THEN 10 ELSE 0)
    IN /\ running_tasks' = [id \in DOMAIN running_tasks \ {task_id} |->
                               running_tasks[id]]
       /\ completed_tasks' =
             [id \in DOMAIN completed_tasks \cup {task_id} |->
                 IF id = task_id THEN success ELSE completed_tasks[id]]
       /\ scheduler_stats' =
             [scheduler_stats EXCEPT
                 !.tasks_completed = IF success THEN @ + 1 ELSE @,
                 !.tasks_failed = IF success THEN @ ELSE @ + 1]
       /\ average_duration' =
             IF task.scanner_name \in DOMAIN scanner_profiles
             THEN [average_duration EXCEPT ![task.scanner_name] =
                      (9 * @ + execution_time) \div 10]
             ELSE average_duration

mark_task_completed ==
    /\ \E task_id \in DOMAIN running_tasks, success \in BOOLEAN, slower \in BOOLEAN :
         MarkCompleted(task_id, success, slower)
    /\ UNCHANGED <<task_queue, resources, next_task, denied, envVars, cacheVars,
                   optVars, orchVars, bgVars>>
    /\ UNCHANGED <<admission, restVars>>

\* optimize_queue_order without the final heapq.heapify
Reestimated_NoHeapify(queue) ==
    [i \in 1..Len(queue) |-> WithEstimates(queue[i])]

\* The queue optimize_queue_order leaves
Reestimated(queue) ==
    heapify([i \in 1..Len(queue) |-> WithEstimates(queue[i])])

\* optimize_queue_order: every queued task's estimates are recomputed in
\* list order, then the list is heapified.
optimize_queue_order ==
    /\ task_queue # <<>>
    /\ task_queue' = Reestimated(task_queue)
    /\ UNCHANGED <<running_tasks, completed_tasks, average_duration,
                   scheduler_stats, resources, next_task, denied, envVars,
                   cacheVars, optVars, orchVars, bgVars>>
    /\ UNCHANGED <<admission, restVars>>

\* _update_resource_cache: the monitor reads a new snapshot
_update_resource_cache ==
    /\ \E r \in ResourceLevels : r # resources /\ resources' = r
    /\ UNCHANGED <<task_queue, running_tasks, completed_tasks, average_duration,
                   scheduler_stats, next_task, denied, envVars, cacheVars,
                   optVars, orchVars, bgVars>>
    /\ UNCHANGED <<admission, restVars>>

\* The snapshots a call of can_handle_task may find: the cores, the memory
\* and the score around what the profiles require and the admission score
SnapshotGrid ==
    [available_cpu_cores : {1, 2, 4}, available_memory_mb : {64, 100, 256, 1024},
     performance_score : {0, 29, 30, 31, 50}]
\* get_current_resources refreshing a stale cache
RefreshSnapshot ==
    /\ \E r \in SnapshotGrid : r # resources /\ resources' = r
    /\ UNCHANGED <<task_queue, running_tasks, completed_tasks, average_duration,
                   scheduler_stats, next_task, denied, admission, restVars,
                   envVars,
                   cacheVars, optVars, orchVars, bgVars>>
\* can_handle_task(requirements) called with a scanner's requirements
AdmissionCheck ==
    /\ \E scanner_name \in SchedScanners :
         LET requirements == [cpu_cores |-> Profile(scanner_name).cpu_cores,
                              memory_mb |-> Profile(scanner_name).memory_mb]
         IN admission' = [called |-> TRUE, requirements |-> requirements,
                          snapshot |-> resources,
                          result |-> can_handle_task(requirements)]
    /\ UNCHANGED <<task_queue, running_tasks, completed_tasks, average_duration,
                   scheduler_stats, resources, next_task, denied, restVars, envVars,
                   cacheVars, optVars, orchVars, bgVars>>
(***************************************************************************)
(* SystemResourceMonitor.get_current_resources and its cache. The clock    *)
(* is time.time() in half seconds.                                         *)
(***************************************************************************)
\* get_current_resources that never records the time of its update
get_current_resources_NoStamp(caller) ==
    /\ caller \in MonitorCallers
    /\ IF monitor.clock - monitor.last_update > update_interval
       THEN /\ \E r \in ResourceLevels : resources' = r
            /\ monitor' = [monitor EXCEPT
                              !.refreshes = @ \cup {monitor.clock},
                              !.caller = caller, !.refreshed = TRUE]
       ELSE /\ UNCHANGED resources
            /\ monitor' = [monitor EXCEPT !.caller = caller, !.refreshed = FALSE]
    /\ UNCHANGED <<task_queue, running_tasks, completed_tasks, average_duration,
                   scheduler_stats, next_task, denied, admission, scan_plan, pool,
                   engineVars, envVars, cacheVars, optVars, orchVars, bgVars>>

\* get_current_resources, called directly or by can_handle_task or
\* get_optimal_worker_count: a stale cache is updated first
get_current_resources(caller) ==
    /\ caller \in MonitorCallers
    /\ IF monitor.clock - monitor.last_update > update_interval
       THEN /\ \E r \in ResourceLevels : resources' = r
            /\ monitor' = [monitor EXCEPT
                              !.last_update = monitor.clock,
                              !.refreshes = @ \cup {monitor.clock},
                              !.caller = caller, !.refreshed = TRUE]
       ELSE /\ UNCHANGED resources
            /\ monitor' = [monitor EXCEPT !.caller = caller, !.refreshed = FALSE]
    /\ UNCHANGED <<task_queue, running_tasks, completed_tasks, average_duration,
                   scheduler_stats, next_task, denied, admission, scan_plan, pool,
                   engineVars, envVars, cacheVars, optVars, orchVars, bgVars>>

\* Half a second passes
MonitorTick ==
    /\ monitor.clock < ClockAtStart + MaxClock
    /\ monitor' = [monitor EXCEPT !.clock = @ + 1]
    /\ UNCHANGED <<task_queue, running_tasks, completed_tasks, average_duration,
                   scheduler_stats, resources, next_task, denied, admission,
                   scan_plan, pool, engineVars, envVars, cacheVars, optVars, orchVars, bgVars>>

MonitorNext ==
    \/ MonitorTick
    \/ \E caller \in MonitorCallers : get_current_resources(caller)

AdmitNext ==
    \/ RefreshSnapshot
    \/ AdmissionCheck

\* Ten seconds pass, the period of the engine's monitoring loop.
SchedTick ==
    /\ now < MaxSchedTicks * 10
    /\ now' = now + 10
    /\ UNCHANGED <<fs, schedVars, cacheVars, optVars, orchVars, bgVars>>

\* One turn of OptimalScanningEngine._monitoring_loop: it calls
\* optimize_queue_order, which returns at once on an empty queue, and sleeps
\* ten seconds.  The turn is counted, and whether it moved another task to
\* the head is recorded.
_monitoring_loop ==
    /\ now < MaxSchedTicks * 10
    /\ now' = now + 10
    /\ task_queue' = IF task_queue = <<>> THEN task_queue
                     ELSE Reestimated(task_queue)
    /\ engine' = [engine EXCEPT
                     !.rebalances = @ + 1,
                     !.reordered = /\ task_queue # <<>>
                                   /\ task_queue'[1].task_id # task_queue[1].task_id]
    /\ UNCHANGED <<running_tasks, completed_tasks, average_duration,
                   scheduler_stats, resources, next_task, denied, admission,
                   monitor, scan_plan, pool, fs, cacheVars, optVars, orchVars, bgVars>>

\* One turn of OptimalScanningEngine._task_execution_loop up to its await:
\* get_next_task returns the head, mark_task_running enters it in
\* running_tasks, the work is submitted to the executor, and the loop
\* awaits the result.  A turn in which get_next_task returns None sleeps
\* 0.1 s and changes nothing.  This variant goes to the next turn without
\* awaiting the result.
_task_execution_loop_NoAwait ==
    /\ engine.pc \in {"idle", "awaiting"}
    /\ task_queue # <<>>
    /\ _dependencies_satisfied(task_queue[1])
    /\ can_handle_task(task_queue[1].requirements)
    /\ task_queue' = heappop(task_queue)
    /\ running_tasks' =
          [id \in DOMAIN running_tasks \cup {task_queue[1].task_id} |->
              IF id = task_queue[1].task_id
              THEN task_queue[1].scanner_name ELSE running_tasks[id]]
    /\ engine' = [engine EXCEPT !.pc = "awaiting", !.task = task_queue[1]]
    /\ UNCHANGED <<completed_tasks, average_duration, scheduler_stats,
                   resources, next_task, denied, admission, monitor, scan_plan, pool,
                   envVars, cacheVars, optVars, orchVars, bgVars>>

\* One turn of OptimalScanningEngine._task_execution_loop up to its await:
\* get_next_task returns the head, mark_task_running enters it in
\* running_tasks, the work is submitted to the executor, and the loop
\* awaits the result.  A turn in which get_next_task returns None sleeps
\* 0.1 s and changes nothing.
_task_execution_loop ==
    /\ engine.pc = "idle"
    /\ task_queue # <<>>
    /\ _dependencies_satisfied(task_queue[1])
    /\ can_handle_task(task_queue[1].requirements)
    /\ task_queue' = heappop(task_queue)
    /\ running_tasks' =
          [id \in DOMAIN running_tasks \cup {task_queue[1].task_id} |->
              IF id = task_queue[1].task_id
              THEN task_queue[1].scanner_name ELSE running_tasks[id]]
    /\ engine' = [engine EXCEPT !.pc = "awaiting", !.task = task_queue[1]]
    /\ UNCHANGED <<completed_tasks, average_duration, scheduler_stats,
                   resources, next_task, denied, admission, monitor, scan_plan, pool,
                   envVars, cacheVars, optVars, orchVars, bgVars>>

\* The rest of the turn with no mark_task_completed in the except clause
_task_execution_loop_result_DropFailure ==
    /\ engine.pc = "awaiting"
    /\ \E success \in BOOLEAN, slower \in BOOLEAN :
         IF success
         THEN MarkCompleted(engine.task.task_id, success, slower)
         ELSE UNCHANGED <<running_tasks, completed_tasks, scheduler_stats,
                          average_duration>>
    /\ engine' = [engine EXCEPT !.pc = "idle"]
    /\ UNCHANGED <<task_queue, resources, next_task, denied, admission,
                   monitor, scan_plan, pool, envVars, cacheVars, optVars, orchVars,
                   bgVars>>

\* The rest of the turn: the executor's future has a result or an exception,
\* and mark_task_completed is called with success True or False.
_task_execution_loop_result ==
    /\ engine.pc = "awaiting"
    /\ \E success \in BOOLEAN, slower \in BOOLEAN :
         MarkCompleted(engine.task.task_id, success, slower)
    /\ engine' = [engine EXCEPT !.pc = "idle"]
    /\ UNCHANGED <<task_queue, resources, next_task, denied, admission,
                   monitor, scan_plan, pool, envVars, cacheVars, optVars, orchVars,
                   bgVars>>

\* The engine: callers schedule tasks, the task execution loop and the
\* monitoring loop run, and the resource snapshot changes
EngineNext ==
    \/ schedule_task
    \/ _update_resource_cache
    \/ _monitoring_loop
    \/ _task_execution_loop
    \/ _task_execution_loop_result

\* The engine with resources that admit every task and callers that declare
\* dependencies on scheduled tasks
EngineDepsNext ==
    \/ schedule_task
    \/ set_dependencies
    \/ _task_execution_loop
    \/ _task_execution_loop_result

\* The scheduler under the engine's monitoring loop
RebalanceNext ==
    \/ schedule_task
    \/ get_next_task
    \/ mark_task_running
    \/ mark_task_completed
    \/ _update_resource_cache
    \/ _monitoring_loop

\* The scheduler with callers that declare dependencies between tasks; the
\* clock stands still and the queue is not re-optimized
DepsNext ==
    \/ schedule_task
    \/ set_dependencies
    \/ get_next_task
    \/ mark_task_running
    \/ mark_task_completed
    \/ _update_resource_cache

SchedNext ==
    \/ schedule_task
    \/ get_next_task
    \/ mark_task_running
    \/ mark_task_completed
    \/ optimize_queue_order
    \/ _update_resource_cache
    \/ SchedTick

(***************************************************************************)
(* Claims about ScanOrchestrator._execute_scan (SpecOrch)                  *)
(***************************************************************************)
FailedTools == {i \in 1..Len(tool_log) : tool_log[i].outcome \in FailedOutcomes}
SucceededReturned ==
    Flatten([i \in 1..Len(tool_log) |->
               IF tool_log[i].outcome = "ok"
               THEN Tag(tool_log[i].tool, tool_log[i].returned) ELSE <<>>])

\* C1: when M of the N tools of a job fail, 0 < M < N, and the job has run
\* to its end without a persistence call raising, the job's status is
\* completed and the saved vulnerabilities and findings are exactly the
\* results returned by the tools that succeeded; and while only tools have
\* failed the status is never failed.
C1_ToolFailureKeepsJobCompleted ==
    /\ (FailedTools # {} /\ ~db_raised) => scan_status # "failed"
    /\ (/\ opc = "done"
        /\ ~db_raised
        /\ 0 < Cardinality(FailedTools)
        /\ Cardinality(FailedTools) < Len(tools))
       => /\ scan_status = "completed"
          /\ db_vulnerabilities = SelectSeq(SucceededReturned, TaggedVuln)
          /\ db_findings = SelectSeq(SucceededReturned, TaggedFinding)

\* C1 witness: a finished job of three tools where one tool returned
\* results whose processing raised, another succeeded with a vulnerability.
C1_Witness ==
    /\ opc = "done"
    /\ ~db_raised
    /\ Len(tools) = 3
    /\ Cardinality(FailedTools) = 1
    /\ \E i \in FailedTools : tool_log[i].returned # <<>>
    /\ db_vulnerabilities # <<>>
    /\ scan_status = "completed"

\* C3: a job whose decomposition yields no tool ends failed and is never
\* completed (stated for the runs in which no persistence call raises).
C3_ZeroToolsJobFails ==
    /\ (tools = <<>> /\ opc # "idle" /\ ~db_raised) => scan_status # "completed"
    /\ (tools = <<>> /\ opc = "done" /\ ~db_raised) => scan_status = "failed"

\* C5: the status moves only pending -> running -> completed or failed, and
\* a completed or failed status is never changed again.
C5_StatusMonotonic ==
    [][/\ (scan_status \in {"completed", "failed"} => scan_status' = scan_status)
       /\ (scan_status = "pending" => scan_status' \in {"pending", "running", "failed"})
       /\ (scan_status = "running" =>
             scan_status' \in {"running", "completed", "failed"})]_vars

(***************************************************************************)
(* Claims about the background scan paths (SpecBg)                         *)
(***************************************************************************)
\* C2: once the clone succeeded and every scanner of the job has finished,
\* whatever the number of failed scanners and of findings, the scan's
\* status becomes completed, on both background paths.
C2_FinishedScanIsCompleted ==
    (bpc = "done" /\ clone_ok /\ finished # {}) => bg_status = "completed"

\* C4: when the git clone fails no scanner is invoked and the scan ends
\* failed, on both background paths.
C4_CloneFailureFailsScan ==
    (bpc = "done" /\ ~clone_ok) => (finished = {} /\ bg_status = "failed")

(***************************************************************************)
(* Claims about AdvancedCacheManager (SpecCache)                           *)
(***************************************************************************)
\* Nothing has been cached for the second target: every live key was written
\* by calls on Path1 (a checksum key outlives the scan entries of its call).
OnlyPath1Cached == ~RedisHas(ChecksumKey(Path2))

\* C6: with all calls made on one target, get_cached_scan_result returns a
\* stored payload only if the target's checksum recomputed at the lookup
\* equals the checksum computed when that payload was stored: a payload of
\* an earlier content is never returned.
C6_NoStalePayload ==
    (lookup.hit /\ lookup.path = Path1 /\ OnlyPath1Cached)
        => lookup.payload.path_checksum = lookup.checksum

\* C7: after invalidate_cache_for_path(target), and until the next
\* cache_scan_result for that target, every get_cached_scan_result on the
\* target is a miss.
C7_InvalidatedPathMisses ==
    (lookup.hit /\ OnlyPath1Cached) => lookup.path \notin invalidated

(***************************************************************************)
(* Claims about OptimizedScannerManager (SpecOpt)                          *)
(***************************************************************************)
\* C8: no two adapter invocations for the same scanner, configuration and
\* target content are in flight at the same time.
C8_SingleFlight ==
    \A r1, r2 \in 1..MaxRequests :
        (r1 # r2 /\ req[r1].pc = "running" /\ req[r2].pc = "running")
            => ~(/\ req[r1].scanner_name = req[r2].scanner_name
                 /\ req[r1].kwargs = req[r2].kwargs
                 /\ req[r1].key_content = req[r2].key_content)

\* A successful run of the same scanner and configuration, on files with the
\* same mtimes and sizes, was cached within the TTL before r's lookup.
RerunOfLiveSuccess(r) ==
    \E s \in req[r].prior : /\ s.scanner_name = req[r].scanner_name
                            /\ s.kwargs = req[r].kwargs
                            /\ s.content = req[r].key_content

\* C9: a run that follows a successful run of the same (scanner, target,
\* config) within the TTL with every file's mtime and size unchanged returns
\* cache_hit = true and does not invoke the adapter; a run for which some
\* file's mtime or size differs invokes the adapter and returns
\* cache_hit = false.
C9_RerunHitsIffUnchanged ==
    \A r \in 1..MaxRequests :
        /\ req[r].pc \in {"running", "done"} =>
               (req[r].invoked <=> ~RerunOfLiveSuccess(r))
        /\ req[r].pc = "done" =>
               (req[r].result.cache_hit <=> RerunOfLiveSuccess(r))

\* A second run of the same scanner, some time after a successful one and on
\* unchanged files, is served from the cache with the first run's findings.
C9_Witness ==
    /\ req[1].pc = "done" /\ req[1].result.status = "success"
    /\ ~req[1].result.cache_hit
    /\ req[2].pc = "done" /\ req[2].result.cache_hit /\ ~req[2].invoked
    /\ req[2].result.findings = req[1].result.findings
    /\ now > 0 /\ fs[Path1] = req[2].key_content

(***************************************************************************)
(* Claims about IntelligentTaskScheduler (SpecSched)                       *)
(***************************************************************************)
\* C10: get_next_task never returns a task while a queued task of a strictly
\* higher priority class exists; in particular a CRITICAL task scheduled
\* after a task of a lower class, both queued, is returned before it.
C10_HighestPriorityClassFirst ==
    [][(next_task'.status = "task" /\ next_task.status # "task")
          => \A i \in 1..Len(task_queue) :
                 task_queue[i].priority >= next_task'.task.priority]_vars

\* get_next_task has returned a CRITICAL task while two tasks of lower
\* classes scheduled before it, with earlier estimated completion times, are
\* still queued, one of them of class MEDIUM, the lowest schedule_task assigns.
C10_Witness ==
    /\ next_task.status = "task"
    /\ next_task.task.priority = CRITICAL
    /\ Len(task_queue) = 2
    /\ \E i \in 1..Len(task_queue) : task_queue[i].priority = MEDIUM
    /\ \A i \in 1..Len(task_queue) :
          /\ task_queue[i].priority > CRITICAL
          /\ task_queue[i].estimated_start_time < next_task.task.estimated_start_time
          /\ task_queue[i].estimated_completion_time
                < next_task.task.estimated_completion_time

(***************************************************************************)
(* Claims about event publication and persistence failures (SpecOrch)      *)
(***************************************************************************)
Published(message_type) == \E e \in events : e.message_type = message_type

\* C14 as stated: with every publication delivered, a job that has begun
\* running has published a scan_started event, a job that ended completed a
\* scan_completed event, and a job that ended failed a scan_failed event.
C14_LifecycleEventsPublished ==
    ~publish_failed =>
        /\ (scan_status = "running" => Published("scan_started"))
        /\ (opc = "done" /\ scan_status = "completed"
               => Published("scan_completed"))
        /\ (opc = "done" /\ scan_status = "failed" => Published("scan_failed"))

\* C15: publications that fail never fail a job and never abort its scan. A
\* job is failed only after a persistence call raised, and a scan in which no
\* persistence call raised ends as it does when every publication succeeds:
\* every tool has had its turn, the status is completed, the progress is 100
\* and all collected vulnerabilities and findings are stored.
C15_PublicationFailureHarmless ==
    /\ (scan_status = "failed" => db_raised)
    /\ (opc = "except" => db_raised)
    /\ (opc = "done" /\ ~db_raised
          => /\ idx = Len(tools)
             /\ scan_status = "completed"
             /\ scan_progress = 100
             /\ db_vulnerabilities = all_vulnerabilities
             /\ db_findings = all_findings)

\* A scan of two tools none of whose publications reached the exchange has
\* ended completed with its findings stored
C15_Witness ==
    /\ opc = "done"
    /\ publish_failed
    /\ events = {}
    /\ Len(tools) = 2
    /\ scan_status = "completed"
    /\ scan_progress = 100
    /\ db_findings # <<>>
    /\ db_findings = all_findings

\* C16 as stated: after a persistence call has raised in a scan that was
\* running its tools, the remaining tools still have their turn and the job
\* does not become failed.
C16_PersistenceFailureHarmless ==
    (db_raised /\ opc = "done" /\ tool_log # <<>>)
        => /\ idx = Len(tools)
           /\ scan_status # "failed"

(***************************************************************************)
(* Claims about admission by get_next_task (SpecDeps)                      *)
(***************************************************************************)
\* A get_next_task call that returns a task, and one that returns None for a
\* head it had not refused under this snapshot before
TaskReturned == next_task.status # "task" /\ next_task'.status = "task"
HeadRefused == next_task.status # "task" /\ denied' # denied

\* C11 as stated: get_next_task never returns a task whose memory_mb exceeds
\* the snapshot's available_memory_mb, and a call made when the snapshot's
\* memory suffices for the queued head returns it.
C11_ReturnedOnceMemorySuffices ==
    [][/\ TaskReturned => next_task'.task.requirements.memory_mb
                         <= resources.available_memory_mb
       /\ HeadRefused => task_queue[1].requirements.memory_mb
                         > resources.available_memory_mb]_vars

\* C11, amended: get_next_task never returns a task whose memory_mb exceeds
\* the snapshot's available_memory_mb, and a call made when the head's
\* dependencies are all in completed_tasks and the snapshot passes
\* can_handle_task for it (cores, memory and score) returns the head.
C11_ReturnedOnceAdmissible ==
    [][/\ TaskReturned => next_task'.task.requirements.memory_mb
                         <= resources.available_memory_mb
       /\ HeadRefused => ~(/\ _dependencies_satisfied(task_queue[1])
                       /\ can_handle_task(task_queue[1].requirements))]_vars

\* A task refused under a snapshot short of memory only is returned by a
\* later call under a snapshot with enough memory
C11_Witness ==
    /\ next_task.status = "task"
    /\ denied.task_id = next_task.task.task_id
    /\ denied.snapshot.available_memory_mb < next_task.task.requirements.memory_mb
    /\ denied.snapshot.available_cpu_cores >= next_task.task.requirements.cpu_cores
    /\ denied.snapshot.performance_score >= 30
    /\ next_task.task.dependencies = {}
    /\ resources.available_memory_mb >= next_task.task.requirements.memory_mb

(***************************************************************************)
(* Claims about the managers' entry points (SpecEntry)                     *)
(***************************************************************************)
\* C12 as stated: an incremental scan with a previous scan id, for which the
\* changed-file set is empty, yields a result for every scanner of
\* all_scanners and invokes no adapter.
C12_EveryScannerYieldsFromCache ==
    (/\ last_call.entry = "run_incremental_scan"
     /\ last_call.arg # "")
        => /\ last_call.yielded = Range(all_scanners)
           /\ last_call.invoked = {}

\* C13: run_scan and run_optimized_scan called with a scan type that is none
\* of "full", "basic", "advanced" and no registered scanner name raise
\* ValueError and invoke no scanner.
C13_UnknownScanTypeRaises ==
    (/\ last_call.entry \in {"run_scan", "run_optimized_scan"}
     /\ last_call.arg \notin {"full", "basic", "advanced"} \cup Range(all_scanners))
        => /\ last_call.raised = "ValueError"
           /\ last_call.invoked = {}
           /\ last_call.yielded = {}

\* run_optimized_scan has been called with an unknown scan type on a manager
\* whose earlier scan cached results
C13_Witness ==
    /\ last_call.entry = "run_optimized_scan"
    /\ last_call.arg = "bandit"
    /\ last_call.raised = "ValueError"
    /\ CachedScanners(Range(all_scanners)) # {}

C19_DependenciesSucceeded ==
    [][TaskReturned =>
          \A dep_id \in next_task'.task.dependencies :
              /\ dep_id \in DOMAIN completed_tasks
              /\ completed_tasks[dep_id]]_vars

(***************************************************************************)
(* Claims about SystemResourceMonitor.can_handle_task (SpecAdmit)          *)
(***************************************************************************)
\* C20: can_handle_task(requirements) returns true if and only if
\* cpu_cores <= available_cpu_cores, memory_mb <= available_memory_mb and
\* performance_score >= 0.3 in the snapshot it reads.
C20_AdmissionIff ==
    admission.called =>
        (admission.result <=>
            /\ admission.requirements.cpu_cores
                  <= admission.snapshot.available_cpu_cores
            /\ admission.requirements.memory_mb
                  <= admission.snapshot.available_memory_mb
            /\ admission.snapshot.performance_score >= 30)

\* A requirement admitted by a snapshot that meets it exactly: as many cores,
\* as much memory, and the admission score itself
C20_Witness ==
    /\ admission.called
    /\ admission.result
    /\ admission.requirements.cpu_cores = admission.snapshot.available_cpu_cores
    /\ admission.requirements.memory_mb = admission.snapshot.available_memory_mb
    /\ admission.snapshot.performance_score = 30

(***************************************************************************)
(* Claims about the resource snapshot cache (SpecMonitor)                  *)
(***************************************************************************)
\* C21: whatever the calls of get_current_resources, can_handle_task and
\* get_optimal_worker_count, two re-samplings of the snapshot are more than
\* update_interval apart, and a call made within update_interval of the last
\* re-sampling leaves the cached snapshot as it is.
C21_ResampledOncePerInterval ==
    /\ [](\A t1, t2 \in monitor.refreshes :
             t1 < t2 => t2 - t1 > update_interval)
    /\ [][(resources' # resources \/ monitor'.refreshes # monitor.refreshes)
             => monitor.clock - monitor.last_update > update_interval]_vars

\* After two re-samplings, a can_handle_task call made later than the second
\* one has been answered from the cache
C21_Witness ==
    /\ Cardinality(monitor.refreshes) = 2
    /\ monitor.caller = "can_handle_task"
    /\ ~monitor.refreshed
    /\ monitor.clock > monitor.last_update
    /\ monitor.clock - monitor.last_update <= update_interval

(***************************************************************************)
(* Claims about the incremental scan plan (SpecPlan)                       *)
(***************************************************************************)
\* A changed file matches a scanner's pattern table: the table has "*", an
\* extension the file ends in, or the file's name; no table matches all
MatchesTable(scanner, file) ==
    \/ scanner \notin DOMAIN scanner_file_patterns
    \/ Star \in scanner_file_patterns[scanner]
    \/ file[1] # "" /\ <<"", file[2]>> \in scanner_file_patterns[scanner]
    \/ file \in scanner_file_patterns[scanner]

\* C22: for a non-empty changed-file set, a scanner is in partial_scan_needed
\* if and only if a changed file matches its pattern table, every other
\* scanner is in cache_valid or full_scan_needed, and every selected scanner
\* is in exactly one of the three classes.
C22_MustRunIffPatternMatches ==
    (scan_plan.called /\ scan_plan.changed_files # {}) =>
        \A scanner \in Range(scan_plan.scanners) :
            LET classes == {c \in {"full_scan_needed", "partial_scan_needed",
                                   "cache_valid"} :
                               scanner \in Range(scan_plan[c])}
            IN /\ Cardinality(classes) = 1
               /\ ("partial_scan_needed" \in classes
                     <=> \E file \in scan_plan.changed_files :
                            MatchesTable(scanner, file))

\* A plan for a changed file no table names: the scanner without a pattern
\* table must run, the other one is not cached and needs a full scan
C22_Witness ==
    /\ scan_plan.called
    /\ scan_plan.changed_files = {<<"README", ".md">>}
    /\ scan_plan.partial_scan_needed = <<"custom">>
    /\ scan_plan.full_scan_needed = <<"dependency">>

(***************************************************************************)
(* Claims about the queue re-optimization (SpecRebalance)                  *)
(***************************************************************************)
\* A queued task without its estimated times
WithoutEstimates(task) ==
    [task EXCEPT !.estimated_start_time = 0, !.estimated_completion_time = 0]
\* How many times each task, estimates apart, is in a queue
QueuedBag(queue) ==
    [t \in {WithoutEstimates(queue[i]) : i \in 1..Len(queue)} |->
        Cardinality({i \in 1..Len(queue) : WithoutEstimates(queue[i]) = t})]
\* The first task is a minimum of (priority, estimated completion time)
HeadIsMinimum(queue) ==
    \A i \in 1..Len(queue) :
        \/ queue[1].priority < queue[i].priority
        \/ /\ queue[1].priority = queue[i].priority
           /\ queue[1].estimated_completion_time
                 <= queue[i].estimated_completion_time

\* C23: a call of optimize_queue_order changes only the estimated times of
\* the queued tasks: the queued tasks and their priorities, running_tasks
\* and completed_tasks stay as they were, and afterwards the head of the
\* queue is a minimum of (priority, estimated completion time).
C23_RebalanceOnlyReestimates ==
    [][engine'.rebalances # engine.rebalances =>
          /\ QueuedBag(task_queue') = QueuedBag(task_queue)
          /\ running_tasks' = running_tasks
          /\ completed_tasks' = completed_tasks
          /\ HeadIsMinimum(task_queue')]_vars

\* A re-optimization that moved another task to the head while a task was
\* running
C23_Witness ==
    /\ engine.rebalances > 0
    /\ engine.reordered
    /\ Len(task_queue) >= 2
    /\ DOMAIN running_tasks # {}

(***************************************************************************)
(* Claims about failing cache lookups (SpecLookup)                         *)
(***************************************************************************)
\* C24: a lookup that meets an entry it cannot decode, or a Redis error, is
\* a miss and raises nothing: get_cached_scan_result returns None, and after
\* _get_cached_result returned None _execute_scanner_async runs the adapter
\* and its result is not a cache hit.
C24_FailedLookupIsMiss ==
    /\ lookup.fault # "none" => (~lookup.hit /\ lookup.raised = "")
    /\ lookup.raised = ""
    /\ \A r \in 1..MaxRequests :
          req[r].lookup_fault # "none" =>
              /\ req[r].pc \in {"running", "done"}
              /\ req[r].invoked
              /\ ~req[r].result.cache_hit

\* get_cached_scan_result met a damaged entry, one request was served after
\* a Redis error and another after a damaged entry
C24_Witness ==
    /\ lookup.fault = "corrupt_entry"
    /\ req[1].lookup_fault = "backend_error" /\ req[1].pc = "done"
    /\ req[1].result.status = "success"
    /\ req[2].lookup_fault = "corrupt_entry" /\ req[2].pc = "done"

(***************************************************************************)
(* Claims about the targets of cached scan results (SpecCache)             *)
(***************************************************************************)
\* C25: get_cached_scan_result never returns a payload that was stored for
\* another target.  The files of Path2 never change here, so a payload stored
\* for Path2 carries the checksum Path2 has; a hit on Path2 must return it.
C25_NoPayloadOfAnotherTarget ==
    (lookup.hit /\ lookup.path = Path2)
        => lookup.payload.path_checksum = PathChecksum(fs[Path2])

(***************************************************************************)
(* Claims about the scheduler's bookkeeping (SpecSched)                    *)
(***************************************************************************)
\* C26: once every task get_next_task returned has been marked running,
\* each scheduled task is in exactly one of the queue, running_tasks and
\* completed_tasks, so the three together hold as many tasks as were
\* scheduled, and tasks_completed + tasks_failed is the number of entries
\* of completed_tasks; the task ids are the auto-generated ones.
C26_EveryTaskAccountedFor ==
    next_task.status # "task" =>
        /\ Len(task_queue) + Cardinality(DOMAIN running_tasks)
              + Cardinality(DOMAIN completed_tasks)
                = scheduler_stats.tasks_scheduled
        /\ scheduler_stats.tasks_completed + scheduler_stats.tasks_failed
                = Cardinality(DOMAIN completed_tasks)

(***************************************************************************)
(* Claims about OptimalScanningEngine (SpecEngineFair, SpecEngine)         *)
(***************************************************************************)
\* The ids schedule_task can generate
EngineTaskIds == {<<n, 10 * k>> : n \in SchedScanners, k \in 0..MaxSchedTicks}
QueuedIds == {task_queue[i].task_id : i \in 1..Len(task_queue)}
\* The head of the queue waits for a task that is still queued
HeadWaitsForQueued ==
    /\ task_queue # <<>>
    /\ task_queue[1].dependencies \cap QueuedIds # {}

\* C27: with the engine loop running, resources that admit every task and
\* dependencies that name scheduled tasks, every queued task eventually is
\* in completed_tasks.
C27_EveryTaskCompletes ==
    \A id \in EngineTaskIds :
        (id \in QueuedIds) ~> (id \in DOMAIN completed_tasks)

\* C27, amended: under the same conditions every queued task eventually is
\* in completed_tasks, unless the head of the queue comes to wait for a
\* task that is itself still queued.
C27_CompletesUnlessHeadWaitsForQueued ==
    \A id \in EngineTaskIds :
        (id \in QueuedIds)
            ~> (id \in DOMAIN completed_tasks \/ HeadWaitsForQueued)

\* Every scheduled task has completed, the last one a task that had a
\* dependency, and one of them failed
C27_Witness ==
    /\ scheduler_stats.tasks_scheduled = MaxTasks
    /\ task_queue = <<>>
    /\ engine.pc = "idle"
    /\ engine.task # <<>>
    /\ engine.task.dependencies # {}
    /\ scheduler_stats.tasks_failed > 0
    /\ Cardinality(DOMAIN completed_tasks) = MaxTasks

\* C28: under one task execution loop at most one task is in running_tasks
\* at any time, and no task is dispatched while one is running.
C28_OneRunningTask ==
    /\ [](Cardinality(DOMAIN running_tasks) <= 1)
    /\ [][(DOMAIN running_tasks' # DOMAIN running_tasks /\ DOMAIN running_tasks' # {})
             => DOMAIN running_tasks = {}]_vars

\* A task is running, one has completed and one is queued that the
\* resources admit
C28_Witness ==
    /\ Cardinality(DOMAIN running_tasks) = 1
    /\ DOMAIN completed_tasks # {}
    /\ task_queue # <<>>
    /\ can_handle_task(task_queue[1].requirements)
    /\ engine.pc = "awaiting"

C30_AtMostMaxWorkersExecuting ==
    pool.active =>
        /\ pool.executing <= pool.max_workers
        /\ pool.looking + pool.executing <= pool.max_workers

\* A full scan on two cores: two adapters execute, and executions wait for
\* the semaphore after others have completed
C30_Witness ==
    /\ pool.active
    /\ pool.scan_type = "full"
    /\ pool.max_workers = 2
    /\ pool.executing = pool.max_workers
    /\ pool.waiting > 0
    /\ pool.done > 0

Init ==
    /\ opc = "idle" /\ bpc = "idle"
    /\ OrchInit
    /\ BgInit
    /\ EnvInit
    /\ CacheInit
    /\ OptInit
    /\ SchedInit

SpecOrch == Init /\ [][OrchNext]_vars
SpecBg == Init /\ [][BgNext]_vars
SpecCache == Init /\ [][CacheNext]_vars
SpecOpt == Init /\ [][OptNext]_vars
SpecEntry == Init /\ [][EntryNext]_vars
SpecSched == Init /\ [][SchedNext]_vars
SpecDeps == Init /\ [][DepsNext]_vars
SpecAdmit == Init /\ [][AdmitNext]_vars
SpecPlan == Init /\ [][PlanNext]_vars
SpecPool == Init /\ [][PoolNext]_vars
SpecEngine == Init /\ [][EngineNext]_vars
\* The event loop runs the task execution loop whenever it can go on, and
\* the executor returns from every task it was given
SpecEngineFair ==
    /\ Init
    /\ [][EngineDepsNext]_vars
    /\ WF_vars(_task_execution_loop)
    /\ WF_vars(_task_execution_loop_result)
SpecLookup == Init /\ [][LookupNext]_vars
SpecRebalance == Init /\ [][RebalanceNext]_vars
SpecMonitor == Init /\ [][MonitorNext]_vars
====
